---- MODULE Spec2Model ----
(***************************************************************************)
(* Endpoint methods of the private-API client: the two pagination helpers  *)
(* (FeedEndpointsMixin.feed_timeline, MediaEndpointsMixin.media_n_comments)*)
(* and MediaEndpointsMixin.post_comment, run against a server that answers *)
(* every request with an arbitrary page or a client error.                 *)
(***************************************************************************)
EXTENDS Integers, Sequences, FiniteSets, Bags, TLC

\* ------------------------------------------------------------------ bounds
MaxN == 2            \* largest threshold n a caller passes
MaxPageItems == 2    \* most items the server puts in one page
MaxTime == 2         \* distinct created_at timestamps of comments

\* ----------------------------------------------------------------- values
Threads == {1, 2}                    \* callers of the one shared client
NoCursor == ""                       \* a falsy next_max_id / no max_id key
Cursors == {"cursor-a", "cursor-b"}  \* next_max_id values the server hands out
NoTime == 0                          \* comment without a created_time key
TimeVals == 1..MaxTime
CsrfTokens == {"csrf-a", "csrf-b"}   \* csrftoken cookie: kept or replaced
NVals == (0 - 1)..MaxN
NoRes == [status |-> "none"]         \* res before the first response
NoRet == [kind |-> "none"]           \* nothing returned (yet)
NoCall == [method |-> "none"]
NoSettings == [kind |-> "none"]       \* no settings (loaded)
NoEntity == [none |-> TRUE]           \* no entity
NoApi == [session |-> "none"]         \* no client constructed
NoFile == [kind |-> "none"]           \* os.path.isfile(settings_file) is false
NoCode == 0                          \* no HTTP code: not a ClientError
HttpErrors == {400, 404}             \* HTTP codes of the errors _call_api raises

\* ------------------------------------------------------- server responses
\* a timeline page: k feed items with fresh ids, each with or without a
\* media_or_ad entry (raw, as the server sends it), a more_available flag and
\* a next_max_id cursor; _call_api only returns envelopes whose status is ok
FeedPages(base) ==
    UNION { { [status |-> "ok",
               feed_items |-> [i \in 1..k |-> [id |-> base + i, media_or_ad |-> f[i]]],
               more_available |-> mo,
               next_max_id |-> c]
              : f \in [1..k -> {"absent", "raw"}], mo \in BOOLEAN,
                c \in {NoCursor} \cup Cursors }
            : k \in 0..MaxPageItems }

\* a comments page: k raw comments (pk, created_at, no created_time)
CommentPages(base) ==
    UNION { { [status |-> "ok",
               comments |-> [i \in 1..k |-> [pk |-> base + i, created_at |-> f[i],
                                             created_time |-> NoTime]],
               has_more_comments |-> mo,
               next_max_id |-> c]
              : f \in [1..k -> TimeVals], mo \in BOOLEAN,
                c \in {NoCursor} \cup Cursors }
            : k \in 0..MaxPageItems }

\* ------------------------------------------------------- compat patching
\* ClientCompatPatch.media on a feed item's media_or_ad entry: adds link
PatchMedia(m) == IF m = "raw" THEN "patched" ELSE m

\* the list comprehension of feed_timeline: patch m['media_or_ad'] of every
\* m of res['feed_items'] that has one
PatchFeedItem(m) ==
    IF m.media_or_ad # "absent"
    THEN [m EXCEPT !.media_or_ad = PatchMedia(m.media_or_ad)]
    ELSE m

\* ClientCompatPatch.comment: derives created_time from created_at
PatchComment(c) == [c EXCEPT !.created_time = c.created_at]

\* ------------------------------------------------------------------ state
VARIABLES
    auto_patch,     \* self.auto_patch
    csrftoken,      \* self.csrftoken, refreshed from every response
    serial,         \* server side: ids handed out so far
    requests,       \* every _call_api issued, in order
    uuids,          \* number of generate_uuid() calls
    breadcrumbs,    \* number of gen_user_breadcrumb() calls
    call,           \* per caller: the method invoked and its arguments
    pc,             \* per caller: position in the method
    params,         \* per caller: params / kwargs sent with the next request
    res,            \* per caller: res / results, the last response
    items,          \* per caller: media / comments accumulated
    pages,          \* per caller: the responses received, in order
    ret,            \* per caller: the value returned
    err,            \* per caller: the type of the exception that left the method
    msg,            \* per caller: the message of that exception
    code,           \* per caller: the HTTP code of that exception (e.code)
    settings,       \* api.settings, the session snapshot of a logged-in client
    settings_file,  \* the JSON document in the settings file, if written
    cached_settings, \* what the script loaded from the settings file
    api,            \* the client object: its session state and on_login hook
    server_valid,   \* server side: the session's cookies are still honoured
    snapshot_expired, \* the expiry of the cookies in the settings file has passed
    logins,         \* login requests sent
    auths,          \* logins answered with status ok: was an on_login supplied
    callbacks,      \* the settings handed to each on_login invocation
    results,        \* outcomes of the endpoint calls made on api, in order
    spc,            \* position of the script that owns api
    kind,           \* which compat patch is applied: media, comment, user, list_user
    drop_incompat_keys, \* the flag handed to the patch
    raw,            \* the entity as the server sent it (the deepcopy source)
    entity,         \* the entity, patched in place
    once,           \* the entity as it was after the first patch
    patches,        \* number of times the patch was applied to entity
    custom_device,  \* the device fields handed to generate_useragent
    custom_ua,      \* the string generate_useragent returned
    from_parsed,    \* custom_ua was generated from parsed_params
    ua,             \* the string handed to validate_useragent
    parsed_params,  \* results['parsed_params'] of validate_useragent
    ua_error,       \* the exception validate_useragent raised
    idcalls,        \* the InstagramID calls made, in order: method, argument, result
    signings        \* the signing calls made, in order: parameters, signed string

vars == <<auto_patch, csrftoken, serial, requests, uuids, breadcrumbs,
          call, pc, params, res, items, pages, ret, err, msg, code,
          settings, settings_file, cached_settings,
          api, server_valid, snapshot_expired, logins, auths, callbacks, results, spc,
          kind, drop_incompat_keys, raw, entity, once, patches,
          custom_device, custom_ua, from_parsed, ua, parsed_params, ua_error,
          idcalls, signings>>

\* what the endpoint methods work on, apart from auto_patch
calls == <<csrftoken, serial, requests, uuids, breadcrumbs,
           call, pc, params, res, items, pages, ret, err, msg, code>>
\* the settings file and what was read from it: no endpoint method touches them
store == <<settings, settings_file, cached_settings>>
\* the session of the client and the script that drives it
session == <<api, server_valid, snapshot_expired, logins, auths, callbacks, results, spc>>
\* an entity under the compat patch
patching == <<kind, drop_incompat_keys, raw, entity, once, patches>>
agent == <<custom_device, custom_ua, from_parsed, ua, parsed_params, ua_error>>
utils == <<idcalls, signings>>
client == <<auto_patch, store, session, patching, agent, utils>>
tokens == <<uuids, breadcrumbs>>

\* no endpoint method called yet
NoCalls ==
    /\ csrftoken = "csrf-a"
    /\ serial = 0
    /\ requests = <<>>
    /\ uuids = 0
    /\ breadcrumbs = 0
    /\ call = [t \in Threads |-> NoCall]
    /\ pc = [t \in Threads |-> "idle"]
    /\ params = [t \in Threads |-> [max_id |-> NoCursor]]
    /\ res = [t \in Threads |-> NoRes]
    /\ items = [t \in Threads |-> <<>>]
    /\ pages = [t \in Threads |-> <<>>]
    /\ ret = [t \in Threads |-> NoRet]
    /\ err = [t \in Threads |-> "none"]
    /\ msg = [t \in Threads |-> "none"]
    /\ code = [t \in Threads |-> NoCode]

\* no settings file written or read
NoStore ==
    /\ settings = NoSettings
    /\ settings_file = NoFile
    /\ cached_settings = NoSettings

\* the script has not started
NoSession ==
    /\ api = NoApi
    /\ server_valid = FALSE
    /\ snapshot_expired = FALSE
    /\ logins = 0
    /\ auths = <<>>
    /\ callbacks = <<>>
    /\ results = <<>>
    /\ spc = "start"

\* no entity being patched
NoDevice == [none |-> TRUE]
NoUseragent == <<>>
NoParams == [none |-> TRUE]

NoAgent ==
    /\ custom_device = NoDevice
    /\ custom_ua = NoUseragent
    /\ from_parsed = FALSE
    /\ ua = NoUseragent
    /\ parsed_params = NoParams
    /\ ua_error = "none"

NoUtils ==
    /\ idcalls = <<>>
    /\ signings = <<>>

NoPatching ==
    /\ kind = "none"
    /\ drop_incompat_keys = FALSE
    /\ raw = NoEntity
    /\ entity = NoEntity
    /\ once = NoEntity
    /\ patches = 0

Init ==
    /\ auto_patch \in BOOLEAN
    /\ NoCalls
    /\ NoStore
    /\ NoSession
    /\ NoPatching
    /\ NoAgent
    /\ NoUtils

\* --------------------------------------------------------------- _call_api
\* the request is issued (and logged) whether or not it succeeds
Issue(t, endpoint, p) ==
    requests' = Append(requests, [thread |-> t, endpoint |-> endpoint, params |-> p])

\* an exception that is caught inside the loop of feed_timeline
Raise_Caught(t, e, m, c) ==
    /\ pc' = [pc EXCEPT ![t] = IF pc[t] = "ft_while" THEN "ft_end" ELSE "raised"]
    /\ err' = [err EXCEPT ![t] = e]
    /\ msg' = [msg EXCEPT ![t] = m]
    /\ code' = [code EXCEPT ![t] = c]

\* _call_api raised: the exception leaves the endpoint method
Raise(t, e, m, c) ==
    /\ pc' = [pc EXCEPT ![t] = "raised"]
    /\ err' = [err EXCEPT ![t] = e]
    /\ msg' = [msg EXCEPT ![t] = m]
    /\ code' = [code EXCEPT ![t] = c]

\* ------------------------------------------------------------ feed_timeline
\* a loop that gives up one item short of n
FeedMore_OneShort(r, media, n) ==
    r.more_available /\ r.next_max_id # NoCursor /\ Len(media) + 1 < n

\* the while condition of feed_timeline
FeedMore(r, media, n) ==
    r.more_available /\ r.next_max_id # NoCursor /\ Len(media) < n

\* a loop body without the bail-out
FeedBail_Never(r) == FALSE

\* the bail-out test at the end of the loop body
FeedBail(r) == r.next_max_id = NoCursor \/ r.feed_items = <<>>

\* lines 20-31: build params, first request, first extend
feed_timeline_call(t) ==
    /\ pc[t] = "idle"
    /\ \E n \in NVals, max_id \in {NoCursor} \cup Cursors :
         LET p == [uuid |-> "uuid", csrftoken |-> csrftoken, max_id |-> max_id] IN
         /\ call' = [call EXCEPT ![t] = [method |-> "feed_timeline", n |-> n]]
         /\ params' = [params EXCEPT ![t] = p]
         /\ Issue(t, "feed/timeline/", p)
         /\ \/ /\ \E c \in HttpErrors : Raise(t, "ClientError", "bad request", c)
               /\ UNCHANGED <<csrftoken, serial, res, items, pages>>
            \/ \E r \in FeedPages(serial), tok \in CsrfTokens :
                 /\ csrftoken' = tok
                 /\ serial' = serial + Len(r.feed_items)
                 /\ res' = [res EXCEPT ![t] = r]
                 /\ items' = [items EXCEPT ![t] = r.feed_items]
                 /\ pages' = [pages EXCEPT ![t] = <<r>>]
                 /\ pc' = [pc EXCEPT ![t] = "ft_while"]
                 /\ UNCHANGED <<err, msg, code>>
    /\ UNCHANGED <<client, tokens, ret>>

\* a loop that reads self.csrftoken again for every page
feed_timeline_next_FreshToken(t) ==
    /\ pc[t] = "ft_while"
    /\ FeedMore(res[t], items[t], call[t].n)
    /\ LET p == [params[t] EXCEPT !.max_id = res[t].next_max_id,
                                !.csrftoken = csrftoken] IN
         /\ params' = [params EXCEPT ![t] = p]
         /\ Issue(t, "feed/timeline/", p)
         /\ \/ /\ \E c \in HttpErrors : Raise(t, "ClientError", "bad request", c)
               /\ UNCHANGED <<csrftoken, serial, res, items, pages>>
            \/ \E r \in FeedPages(serial), tok \in CsrfTokens :
                 /\ csrftoken' = tok
                 /\ serial' = serial + Len(r.feed_items)
                 /\ res' = [res EXCEPT ![t] = r]
                 /\ items' = [items EXCEPT ![t] = items[t] \o r.feed_items]
                 /\ pages' = [pages EXCEPT ![t] = Append(pages[t], r)]
                 /\ pc' = [pc EXCEPT ![t] = IF FeedBail(r) THEN "ft_end" ELSE "ft_while"]
                 /\ UNCHANGED <<err, msg, code>>
    /\ UNCHANGED <<client, tokens, call, ret>>

\* a loop that extends a list shared by the callers
feed_timeline_next_SharedList(t) ==
    /\ pc[t] = "ft_while"
    /\ FeedMore(res[t], items[t], call[t].n)
    /\ LET p == [params[t] EXCEPT !.max_id = res[t].next_max_id] IN
         /\ params' = [params EXCEPT ![t] = p]
         /\ Issue(t, "feed/timeline/", p)
         /\ \/ /\ \E c \in HttpErrors : Raise(t, "ClientError", "bad request", c)
               /\ UNCHANGED <<csrftoken, serial, res, items, pages>>
            \/ \E r \in FeedPages(serial), tok \in CsrfTokens :
                 /\ csrftoken' = tok
                 /\ serial' = serial + Len(r.feed_items)
                 /\ res' = [res EXCEPT ![t] = r]
                 /\ items' = [items EXCEPT ![t] = items[3 - t] \o r.feed_items]
                 /\ pages' = [pages EXCEPT ![t] = Append(pages[t], r)]
                 /\ pc' = [pc EXCEPT ![t] = IF FeedBail(r) THEN "ft_end" ELSE "ft_while"]
                 /\ UNCHANGED <<err, msg, code>>
    /\ UNCHANGED <<client, tokens, call, ret>>

\* lines 32-37: one iteration of the loop
feed_timeline_next(t) ==
    /\ pc[t] = "ft_while"
    /\ FeedMore(res[t], items[t], call[t].n)
    /\ LET p == [params[t] EXCEPT !.max_id = res[t].next_max_id] IN
         /\ params' = [params EXCEPT ![t] = p]
         /\ Issue(t, "feed/timeline/", p)
         /\ \/ /\ \E c \in HttpErrors : Raise(t, "ClientError", "bad request", c)
               /\ UNCHANGED <<csrftoken, serial, res, items, pages>>
            \/ \E r \in FeedPages(serial), tok \in CsrfTokens :
                 /\ csrftoken' = tok
                 /\ serial' = serial + Len(r.feed_items)
                 /\ res' = [res EXCEPT ![t] = r]
                 /\ items' = [items EXCEPT ![t] = items[t] \o r.feed_items]
                 /\ pages' = [pages EXCEPT ![t] = Append(pages[t], r)]
                 /\ pc' = [pc EXCEPT ![t] = IF FeedBail(r) THEN "ft_end" ELSE "ft_while"]
                 /\ UNCHANGED <<err, msg, code>>
    /\ UNCHANGED <<client, tokens, call, ret>>

\* what feed_timeline hands back: the list media (not the envelope res)
FeedReturn(r, media) == [kind |-> "list", value |-> media]

\* the items of res['feed_items'] are the very objects last appended to
\* media, so patching them in place patches the tail of media
FeedPatched(r, media) ==
    [i \in 1..Len(media) |->
        IF i > Len(media) - Len(r.feed_items) THEN PatchFeedItem(media[i]) ELSE media[i]]

\* lines 39-43: leave the loop, patch when auto_patch, return
feed_timeline_return(t) ==
    /\ \/ pc[t] = "ft_end"
       \/ pc[t] = "ft_while" /\ ~FeedMore(res[t], items[t], call[t].n)
    /\ LET media == IF auto_patch THEN FeedPatched(res[t], items[t]) ELSE items[t] IN
         /\ items' = [items EXCEPT ![t] = media]
         /\ ret' = [ret EXCEPT ![t] = FeedReturn(res[t], media)]
    /\ pc' = [pc EXCEPT ![t] = "done"]
    /\ UNCHANGED <<client, tokens, csrftoken, serial, requests, call, params, res, pages, err, msg, code>>

\* --------------------------------------------------------- media_n_comments
\* a loop without the threshold
CommentsMore_NoThreshold(r, comments, n) ==
    r.has_more_comments /\ r.next_max_id # NoCursor

\* the while condition of media_n_comments
CommentsMore(r, comments, n) ==
    r.has_more_comments /\ r.next_max_id # NoCursor /\ Len(comments) < n

\* a bail-out that looks at the cursor only
CommentsBail_CursorOnly(r) == r.next_max_id = NoCursor

\* "bail out if no max_id or comments returned"
CommentsBail(r) == r.next_max_id = NoCursor \/ r.comments = <<>>

\* lines 85-89: first request with the caller's kwargs, first extend
media_n_comments_call(t) ==
    /\ pc[t] = "idle"
    /\ \E n \in NVals, reverse \in BOOLEAN, max_id \in {NoCursor} \cup Cursors :
         LET kwargs == [max_id |-> max_id] IN
         /\ call' = [call EXCEPT ![t] = [method |-> "media_n_comments", n |-> n,
                                         reverse |-> reverse]]
         /\ params' = [params EXCEPT ![t] = kwargs]
         /\ Issue(t, "media/comments/", kwargs)
         /\ \/ /\ \E c \in HttpErrors : Raise(t, "ClientError", "bad request", c)
               /\ UNCHANGED <<csrftoken, serial, res, items, pages>>
            \/ \E r \in CommentPages(serial), tok \in CsrfTokens :
                 /\ csrftoken' = tok
                 /\ serial' = serial + Len(r.comments)
                 /\ res' = [res EXCEPT ![t] = r]
                 /\ items' = [items EXCEPT ![t] = r.comments]
                 /\ pages' = [pages EXCEPT ![t] = <<r>>]
                 /\ pc' = [pc EXCEPT ![t] = "mc_while"]
                 /\ UNCHANGED <<err, msg, code>>
    /\ UNCHANGED <<client, tokens, ret>>

\* lines 90-96: one iteration of the loop
media_n_comments_next(t) ==
    /\ pc[t] = "mc_while"
    /\ CommentsMore(res[t], items[t], call[t].n)
    /\ LET kwargs == [params[t] EXCEPT !.max_id = res[t].next_max_id] IN
         /\ params' = [params EXCEPT ![t] = kwargs]
         /\ Issue(t, "media/comments/", kwargs)
         /\ \/ /\ \E c \in HttpErrors : Raise(t, "ClientError", "bad request", c)
               /\ UNCHANGED <<csrftoken, serial, res, items, pages>>
            \/ \E r \in CommentPages(serial), tok \in CsrfTokens :
                 /\ csrftoken' = tok
                 /\ serial' = serial + Len(r.comments)
                 /\ res' = [res EXCEPT ![t] = r]
                 /\ items' = [items EXCEPT ![t] = items[t] \o r.comments]
                 /\ pages' = [pages EXCEPT ![t] = Append(pages[t], r)]
                 /\ pc' = [pc EXCEPT ![t] = IF CommentsBail(r) THEN "mc_end" ELSE "mc_while"]
                 /\ UNCHANGED <<err, msg, code>>
    /\ UNCHANGED <<client, tokens, call, ret>>

\* a comparison that ignores reverse
SortsBefore_Ascending(a, b, reverse) == a.created_time < b.created_time

\* k['created_time'] of a comment sorts before that of another
SortsBefore(a, b, reverse) ==
    IF reverse THEN a.created_time > b.created_time
               ELSE a.created_time < b.created_time

\* position at which a stable sort puts c into the sorted list s: before the
\* first element that c sorts before
RECURSIVE InsertAt(_, _, _, _)
InsertAt(s, c, reverse, i) ==
    IF i > Len(s) \/ SortsBefore(c, s[i], reverse) THEN i
    ELSE InsertAt(s, c, reverse, i + 1)

Insert(s, c, reverse) ==
    LET i == InsertAt(s, c, reverse, 1) IN
    SubSeq(s, 1, i - 1) \o <<c>> \o SubSeq(s, i, Len(s))

\* sorted(comments, key=lambda k: k['created_time'], reverse=reverse)
RECURSIVE SortFrom(_, _, _, _)
SortFrom(comments, reverse, i, acc) ==
    IF i > Len(comments) THEN acc
    ELSE SortFrom(comments, reverse, i + 1, Insert(acc, comments[i], reverse))

Sorted(comments, reverse) == SortFrom(comments, reverse, 1, <<>>)

\* a key function that never raises (k.get('created_time'))
KeyMissing_Tolerant(comments) == FALSE

\* the key function raises KeyError on a comment without created_time
KeyMissing(comments) == \E i \in 1..Len(comments) : comments[i].created_time = NoTime

\* the comprehension at lines 98-100: every accumulated comment is patched
CommentsPatched(comments) == [i \in 1..Len(comments) |-> PatchComment(comments[i])]

\* lines 98-102: leave the loop, patch when auto_patch, sort and return
media_n_comments_return(t) ==
    /\ \/ pc[t] = "mc_end"
       \/ pc[t] = "mc_while" /\ ~CommentsMore(res[t], items[t], call[t].n)
    /\ LET comments == IF auto_patch THEN CommentsPatched(items[t]) ELSE items[t] IN
         /\ items' = [items EXCEPT ![t] = comments]
         /\ IF KeyMissing(comments)
            THEN /\ Raise(t, "KeyError", "created_time", NoCode)
                 /\ UNCHANGED ret
            ELSE /\ ret' = [ret EXCEPT ![t] =
                              [kind |-> "list",
                               value |-> Sorted(comments, call[t].reverse)]]
                 /\ pc' = [pc EXCEPT ![t] = "done"]
                 /\ UNCHANGED <<err, msg, code>>
    /\ UNCHANGED <<client, tokens, csrftoken, serial, requests, call, params, res, pages>>

\* ------------------------------------------------------------- post_comment
\* characters of a comment text, by the classes the validation tells apart
AsciiLower == {"a", "h", "t", "p", "s"}
AsciiUpper == {"A", "H", "T", "P", "S"}
OtherLower == {"e-acute"}                  \* lower-case letters outside a-z
OtherUpper == {"E-acute"}                  \* upper-case letters outside A-Z
Digits == {"1"}
Spaces == {" ", "\n"}
Letters == AsciiLower \cup AsciiUpper \cup OtherLower \cup OtherUpper
WordChars == Letters \cup Digits           \* \w

\* str.upper() of one character
UpperChar(c) ==
    CASE c = "a" -> "A" [] c = "h" -> "H" [] c = "t" -> "T" [] c = "p" -> "P"
      [] c = "s" -> "S" [] c = "e-acute" -> "E-acute" [] OTHER -> c

\* comment_text.upper()
UpperText(text) == [i \in 1..Len(text) |-> UpperChar(text[i])]

\* re.search(r'[a-z]+', comment_text, re.IGNORECASE)
SearchAZ(text) == \E i \in 1..Len(text) : text[i] \in AsciiLower \cup AsciiUpper

\* \b at the position after text[p] (p = 0: start of the text)
IsWord(text, i) == i \in 1..Len(text) /\ text[i] \in WordChars
WordBoundary(text, p) == IsWord(text, p) # IsWord(text, p + 1)

Max(S) == CHOOSE x \in S : \A y \in S : y <= x

\* a match that cannot give back characters: only the whole run up to the
\* next '#' is tried
HashtagEnds_NoBacktrack(text, i) ==
    {e \in (i + 1)..Len(text) :
        /\ \A k \in (i + 1)..e : text[k] # "#"
        /\ (e = Len(text) \/ text[e + 1] = "#")
        /\ WordBoundary(text, e)}

\* ends of the matches of #[^#]+\b that start at the '#' at i
HashtagEnds(text, i) ==
    {e \in (i + 1)..Len(text) :
        (\A k \in (i + 1)..e : text[k] # "#") /\ WordBoundary(text, e)}

\* starts of matches at or after position i
HashtagStarts(text, i) ==
    {j \in i..Len(text) : text[j] = "#" /\ HashtagEnds(text, j) # {}}

Min(S) == CHOOSE x \in S : \A y \in S : x <= y

\* len(re.findall(r'#[^#]+\b', comment_text, re.UNICODE | re.MULTILINE)),
\* scanning from position i: the leftmost match is taken, it is greedy, and
\* the scan resumes after it
RECURSIVE CountHashtags(_, _)
CountHashtags(text, i) ==
    IF HashtagStarts(text, i) = {} THEN 0
    ELSE LET j == Min(HashtagStarts(text, i)) IN
         1 + CountHashtags(text, Max(HashtagEnds(text, j)) + 1)

\* text has the characters of lit at position i
LitAt(text, i, lit) ==
    /\ i + Len(lit) - 1 <= Len(text)
    /\ \A k \in 1..Len(lit) : text[i + k - 1] = lit[k]

HttpScheme == <<"h", "t", "t", "p", ":", "/", "/">>
HttpsScheme == <<"h", "t", "t", "p", "s", ":", "/", "/">>

\* position after \bhttps?:// matched at i, or 0
SchemeEnd(text, i) ==
    IF ~WordBoundary(text, i - 1) THEN 0
    ELSE IF LitAt(text, i, HttpsScheme) THEN i + Len(HttpsScheme)
    ELSE IF LitAt(text, i, HttpScheme) THEN i + Len(HttpScheme)
    ELSE 0

\* last position of the run of non-whitespace that starts at q (q - 1 if none)
NonSpaceEnd(text, q) ==
    Max({r \in (q - 1)..Len(text) : \A k \in q..r : text[k] \notin Spaces})

\* end of the match of \bhttps?://\S+\.\S+ at i, or 0: the last \S+ is greedy
UrlEnd(text, i) ==
    LET q == SchemeEnd(text, i) IN
    IF q = 0 THEN 0
    ELSE LET r == NonSpaceEnd(text, q) IN
         IF \E d \in (q + 1)..(r - 1) : text[d] = "." THEN r ELSE 0

UrlStarts(text, i) == {j \in i..Len(text) : UrlEnd(text, j) # 0}

\* len(re.findall(r'\bhttps?://\S+\.\S+', comment_text)), scanning from i
RECURSIVE CountUrls(_, _)
CountUrls(text, i) ==
    IF UrlStarts(text, i) = {} THEN 0
    ELSE LET j == Min(UrlStarts(text, i)) IN
         1 + CountUrls(text, UrlEnd(text, j) + 1)

MaxCommentLength == 300
MaxHashtags == 4
MaxUrls == 1

\* a length test that is off by one
TooLong_FromLimit(text) == Len(text) >= MaxCommentLength

\* the four tests of post_comment, one per line 179, 181, 183, 185
TooLong(text) == Len(text) > MaxCommentLength
AllCapitals(text) == SearchAZ(text) /\ text = UpperText(text)
TooManyHashtags(text) == CountHashtags(text, 1) > MaxHashtags
TooManyUrls(text) == CountUrls(text, 1) > MaxUrls

\* the messages of the four ValueErrors
LengthError == "The total length of the comment cannot exceed 300 characters."
CapitalsError == "The comment cannot consist of all capital letters."
HashtagsError == "The comment cannot contain more than 4 hashtags."
UrlsError == "The comment cannot contain more than 1 URL."

\* a validation that forgets its last test
Validate_WithoutUrlTest(text) ==
    IF TooLong(text) THEN LengthError
    ELSE IF AllCapitals(text) THEN CapitalsError
    ELSE IF TooManyHashtags(text) THEN HashtagsError
    ELSE "none"

\* lines 179-186: the message of the ValueError raised, or "none"
Validate(text) ==
    IF TooLong(text) THEN LengthError
    ELSE IF AllCapitals(text) THEN CapitalsError
    ELSE IF TooManyHashtags(text) THEN HashtagsError
    ELSE IF TooManyUrls(text) THEN UrlsError
    ELSE "none"

\* comment texts tried: up to MaxPieces pieces, or one piece and padding to a
\* length at or around the limit
MaxPieces == 2
Tag == <<"#", "a">>
Url == <<"h", "t", "t", "p", ":", "/", "/", "a", ".", "a">>
LooseTag == <<"#", " ", "a">>
\* k copies of piece, each preceded by sep
RECURSIVE Repeat(_, _, _)
Repeat(sep, piece, k) == IF k = 0 THEN <<>> ELSE Repeat(sep, piece, k - 1) \o sep \o piece
Separators == { <<>>, <<" ">>, <<"\n">> }
Pieces ==
    { <<"a">>, <<"A">>, <<"1">>, <<" ">>, <<"e-acute">>, <<"E-acute">>, <<",">>,
      Tag, <<"#">>, Repeat(<<>>, LooseTag, 3),
      Url, Url \o <<" ">> \o Url, Url \o <<",">> \o Url }
    \cup { Repeat(sep, Tag, k) : sep \in Separators, k \in {2, 3} }
Bodies ==
    UNION { { ps : ps \in [1..k -> Pieces] } : k \in 0..MaxPieces }
RECURSIVE Flatten(_, _)
Flatten(ps, k) == IF k = 0 THEN <<>> ELSE Flatten(ps, k - 1) \o ps[k]
Padding ==
    { [i \in 1..k |-> c] : c \in {"a", "1"},
      k \in {0, MaxCommentLength - 1, MaxCommentLength, MaxCommentLength + 1} }
\* every body as it is, and the bodies of at most one piece padded
Texts ==
    { Flatten(ps, Len(ps)) : ps \in Bodies }
    \cup { Flatten(ps, Len(ps)) \o pad : ps \in {b \in Bodies : Len(b) <= 1}, pad \in Padding }

\* lines 179-199: validate; then build the params (breadcrumb, idempotence
\* token, authenticated params), post them, patch the comment, return res
post_comment(t) ==
    /\ pc[t] = "idle"
    /\ \E text \in Texts :
         /\ call' = [call EXCEPT ![t] = [method |-> "post_comment", comment_text |-> text]]
         /\ IF Validate(text) # "none"
            THEN /\ Raise(t, "ValueError", Validate(text), NoCode)
                 /\ UNCHANGED <<tokens, csrftoken, serial, requests, params, res, ret>>
            ELSE LET p == [comment_text |-> text,
                           user_breadcrumb |-> breadcrumbs + 1,
                           idempotence_token |-> uuids + 1,
                           csrftoken |-> csrftoken] IN
                 /\ breadcrumbs' = breadcrumbs + 1
                 /\ uuids' = uuids + 1
                 /\ params' = [params EXCEPT ![t] = p]
                 /\ Issue(t, "media/comment/", p)
                 /\ \/ /\ \E c \in HttpErrors : Raise(t, "ClientError", "bad request", c)
                       /\ UNCHANGED <<csrftoken, serial, res, ret>>
                    \/ \E ts \in TimeVals, tok \in CsrfTokens :
                         LET c == [pk |-> serial + 1, created_at |-> ts,
                                   created_time |-> NoTime]
                             r == [status |-> "ok",
                                   comment |-> IF auto_patch THEN PatchComment(c) ELSE c]
                         IN /\ csrftoken' = tok
                            /\ serial' = serial + 1
                            /\ res' = [res EXCEPT ![t] = r]
                            /\ ret' = [ret EXCEPT ![t] = [kind |-> "mapping", value |-> r]]
                            /\ pc' = [pc EXCEPT ![t] = "done"]
                            /\ UNCHANGED <<err, msg, code>>
    /\ UNCHANGED <<client, items, pages>>

\* ------------------------------------------- non-paginating endpoint methods
\* the items of a media_info / user_feed response, raw as the server sends them
MediaLists == UNION { [1..k -> {"raw"}] : k \in 0..MaxPageItems }
MediaResponses == { [status |-> "ok", items |-> ms] : ms \in MediaLists }

\* the error response _call_api turned into a ClientError
Failure(c) == [status |-> "fail", code |-> c]

\* [ClientCompatPatch.media(m) for m in res.get('items', [])]
ItemsPatched(r) == [r EXCEPT !.items = [i \in 1..Len(r.items) |-> PatchMedia(r.items[i])]]

\* [ClientCompatPatch.comment(c) for c in res.get('comments', [])]
CommentsOfPatched(r) ==
    [r EXCEPT !.comments = [i \in 1..Len(r.comments) |-> PatchComment(r.comments[i])]]

\* the method returns res
Returns(t, r) ==
    /\ res' = [res EXCEPT ![t] = r]
    /\ ret' = [ret EXCEPT ![t] = [kind |-> "mapping", value |-> r]]
    /\ pc' = [pc EXCEPT ![t] = "done"]
    /\ UNCHANGED <<err, msg, code>>

\* a media_info that asks once more when its request fails
media_info_Retrying(t) ==
    /\ pc[t] = "idle"
    /\ LET q == [max_id |-> NoCursor] IN
         /\ call' = [call EXCEPT ![t] = [method |-> "media_info"]]
         /\ params' = [params EXCEPT ![t] = q]
         /\ \/ \E c \in HttpErrors, d \in HttpErrors :
                 /\ requests' = requests \o
                        << [thread |-> t, endpoint |-> "media/id/info/", params |-> q],
                           [thread |-> t, endpoint |-> "media/id/info/", params |-> q] >>
                 /\ Raise(t, "ClientError", "bad request", d)
                 /\ pages' = [pages EXCEPT ![t] = <<Failure(c), Failure(d)>>]
                 /\ UNCHANGED <<csrftoken, res, ret>>
            \/ \E r \in MediaResponses, tok \in CsrfTokens :
                 /\ Issue(t, "media/id/info/", q)
                 /\ csrftoken' = tok
                 /\ pages' = [pages EXCEPT ![t] = <<r>>]
                 /\ Returns(t, IF auto_patch THEN ItemsPatched(r) ELSE r)
    /\ UNCHANGED <<client, tokens, serial, items>>

\* media.py lines 17-22: one _call_api, patch the items, return res
media_info(t) ==
    /\ pc[t] = "idle"
    /\ LET q == [max_id |-> NoCursor] IN
         /\ call' = [call EXCEPT ![t] = [method |-> "media_info"]]
         /\ params' = [params EXCEPT ![t] = q]
         /\ Issue(t, "media/id/info/", q)
         /\ \/ \E c \in HttpErrors :
                 /\ Raise(t, "ClientError", "bad request", c)
                 /\ pages' = [pages EXCEPT ![t] = <<Failure(c)>>]
                 /\ UNCHANGED <<csrftoken, res, ret>>
            \/ \E r \in MediaResponses, tok \in CsrfTokens :
                 /\ csrftoken' = tok
                 /\ pages' = [pages EXCEPT ![t] = <<r>>]
                 /\ Returns(t, IF auto_patch THEN ItemsPatched(r) ELSE r)
    /\ UNCHANGED <<client, tokens, serial, items>>

\* a media_comments that patches whatever auto_patch says
media_comments_AlwaysPatching(t) ==
    /\ pc[t] = "idle"
    /\ \E max_id \in {NoCursor} \cup Cursors :
         LET q == [max_id |-> max_id] IN
         /\ call' = [call EXCEPT ![t] = [method |-> "media_comments"]]
         /\ params' = [params EXCEPT ![t] = q]
         /\ Issue(t, "media/id/comments/", q)
         /\ \/ \E c \in HttpErrors :
                 /\ Raise(t, "ClientError", "bad request", c)
                 /\ pages' = [pages EXCEPT ![t] = <<Failure(c)>>]
                 /\ UNCHANGED <<csrftoken, serial, res, ret>>
            \/ \E r \in CommentPages(serial), tok \in CsrfTokens :
                 /\ csrftoken' = tok
                 /\ serial' = serial + Len(r.comments)
                 /\ pages' = [pages EXCEPT ![t] = <<r>>]
                 /\ Returns(t, CommentsOfPatched(r))
    /\ UNCHANGED <<client, tokens, items>>

\* media.py lines 66-72: one _call_api with the caller's kwargs as query
media_comments(t) ==
    /\ pc[t] = "idle"
    /\ \E max_id \in {NoCursor} \cup Cursors :
         LET q == [max_id |-> max_id] IN
         /\ call' = [call EXCEPT ![t] = [method |-> "media_comments"]]
         /\ params' = [params EXCEPT ![t] = q]
         /\ Issue(t, "media/id/comments/", q)
         /\ \/ \E c \in HttpErrors :
                 /\ Raise(t, "ClientError", "bad request", c)
                 /\ pages' = [pages EXCEPT ![t] = <<Failure(c)>>]
                 /\ UNCHANGED <<csrftoken, serial, res, ret>>
            \/ \E r \in CommentPages(serial), tok \in CsrfTokens :
                 /\ csrftoken' = tok
                 /\ serial' = serial + Len(r.comments)
                 /\ pages' = [pages EXCEPT ![t] = <<r>>]
                 /\ Returns(t, IF auto_patch THEN CommentsOfPatched(r) ELSE r)
    /\ UNCHANGED <<client, tokens, items>>

\* feed.py lines 69-77: rank_token query plus kwargs, one _call_api
user_feed(t) ==
    /\ pc[t] = "idle"
    /\ \E max_id \in {NoCursor} \cup Cursors :
         LET q == [rank_token |-> "rank-token", ranked_content |-> "true",
                   max_id |-> max_id] IN
         /\ call' = [call EXCEPT ![t] = [method |-> "user_feed"]]
         /\ params' = [params EXCEPT ![t] = q]
         /\ Issue(t, "feed/user/id/", q)
         /\ \/ \E c \in HttpErrors :
                 /\ Raise(t, "ClientError", "bad request", c)
                 /\ pages' = [pages EXCEPT ![t] = <<Failure(c)>>]
                 /\ UNCHANGED <<csrftoken, res, ret>>
            \/ \E r \in MediaResponses, tok \in CsrfTokens :
                 /\ csrftoken' = tok
                 /\ pages' = [pages EXCEPT ![t] = <<r>>]
                 /\ Returns(t, IF auto_patch THEN ItemsPatched(r) ELSE r)
    /\ UNCHANGED <<client, tokens, serial, items>>

Step(t) ==
    \/ feed_timeline_call(t)
    \/ feed_timeline_next(t)
    \/ feed_timeline_return(t)
    \/ media_n_comments_call(t)
    \/ media_n_comments_next(t)
    \/ media_n_comments_return(t)
    \/ post_comment(t)
    \/ media_info(t)
    \/ media_comments(t)
    \/ user_feed(t)

\* ------------------------------------------------------------ specification
Next == \E t \in {1} : Step(t)

Spec == Init /\ [][Next]_vars

\* the two pagination helpers alone
Paging(t) ==
    \/ feed_timeline_call(t)
    \/ feed_timeline_next(t)
    \/ feed_timeline_return(t)
    \/ media_n_comments_call(t)
    \/ media_n_comments_next(t)
    \/ media_n_comments_return(t)

PagingNext == \E t \in {1} : Paging(t)

PagingSpec == Init /\ [][PagingNext]_vars

\* two callers inside the helpers at once. The callers ask for MaxN items from
\* the start, not reversed; the server keeps the csrftoken, reports more
\* pages on every page, puts at most one item in a page, stamps every comment
\* alike and hands each caller a cursor of its own.
CursorOf(t) == IF t = 1 THEN "cursor-a" ELSE "cursor-b"
SameDay(r) ==
    "comments" \in DOMAIN r => \A i \in DOMAIN r.comments : r.comments[i].created_at = 1
AllMedia(r) ==
    "feed_items" \in DOMAIN r =>
        \A i \in DOMAIN r.feed_items : r.feed_items[i].media_or_ad = "raw"
Narrow(t) ==
    /\ call[t].method # "none" =>
           /\ call[t].n = MaxN
           /\ "reverse" \in DOMAIN call[t] => ~call[t].reverse
    /\ csrftoken = "csrf-a"
    /\ \A i \in DOMAIN pages[t] :
           /\ IF "more_available" \in DOMAIN pages[t][i]
              THEN pages[t][i].more_available ELSE pages[t][i].has_more_comments
           /\ SameDay(pages[t][i]) /\ AllMedia(pages[t][i])
           /\ pages[t][i].next_max_id \in {NoCursor, CursorOf(t)}
           /\ \A j \in DOMAIN pages[t][i] :
                  j \in {"feed_items", "comments"} => Len(pages[t][i][j]) <= 1
    /\ \A i \in DOMAIN requests :
           (requests[i].thread = t /\ \A j \in 1..(i - 1) : requests[j].thread # t)
               => requests[i].params.max_id = NoCursor

ConcurrentNext == \E t \in Threads : Paging(t) /\ Narrow(t)'

ConcurrentInit == Init /\ auto_patch

ConcurrentSpec == ConcurrentInit /\ [][ConcurrentNext]_vars

\* ----------------------------------------------------------- settings file
\* Python values of a settings mapping, and the JSON values of its document
PyStr(cs) == [kind |-> "str", val |-> cs]
PyInt(n) == [kind |-> "int", val |-> n]
PyBytes(b) == [kind |-> "bytes", val |-> b]
PyDict(d) == [kind |-> "dict", val |-> d]
JString(cs) == [kind |-> "string", val |-> cs]
JNumber(n) == [kind |-> "number", val |-> n]
JObject(d) == [kind |-> "object", val |-> d]
TypeError(x) == [kind |-> "TypeError", val |-> x]

\* the base64 alphabet; '=' pads
Base64Chars ==
    << "A", "B", "C", "D", "E", "F", "G", "H", "I", "J", "K", "L", "M", "N", "O", "P",
       "Q", "R", "S", "T", "U", "V", "W", "X", "Y", "Z", "a", "b", "c", "d", "e", "f",
       "g", "h", "i", "j", "k", "l", "m", "n", "o", "p", "q", "r", "s", "t", "u", "v",
       "w", "x", "y", "z", "0", "1", "2", "3", "4", "5", "6", "7", "8", "9", "+", "/" >>
Base64Pad == "="
Char64(n) == Base64Chars[n + 1]
Index64(c) == (CHOOSE i \in 1..Len(Base64Chars) : Base64Chars[i] = c) - 1
IsChar64(c) == \E i \in 1..Len(Base64Chars) : Base64Chars[i] = c

\* binascii.b2a_base64 without its newline: 3 bytes become 4 characters,
\* a last group of 1 or 2 bytes is padded
RECURSIVE B2A(_)
B2A(b) ==
    IF b = <<>> THEN <<>>
    ELSE IF Len(b) = 1 THEN
        << Char64(b[1] \div 4), Char64((b[1] % 4) * 16), Base64Pad, Base64Pad >>
    ELSE IF Len(b) = 2 THEN
        << Char64(b[1] \div 4), Char64((b[1] % 4) * 16 + b[2] \div 16),
           Char64((b[2] % 16) * 4), Base64Pad >>
    ELSE << Char64(b[1] \div 4), Char64((b[1] % 4) * 16 + b[2] \div 16),
            Char64((b[2] % 16) * 4 + b[3] \div 64), Char64(b[3] % 64) >>
         \o B2A(SubSeq(b, 4, Len(b)))

\* base64.MAXBINSIZE: bytes per line of output
ChunkSize == 57

\* codecs.encode(b, 'base64'): every chunk of 57 bytes on a line of its own
RECURSIVE EncodeBase64(_)
EncodeBase64(b) ==
    IF b = <<>> THEN <<>>
    ELSE IF Len(b) <= ChunkSize THEN B2A(b) \o <<"\n">>
    ELSE B2A(SubSeq(b, 1, ChunkSize)) \o <<"\n">>
         \o EncodeBase64(SubSeq(b, ChunkSize + 1, Len(b)))

\* binascii.Error('Incorrect padding')
PaddingError == << 0 - 1 >>

\* '=' read in a row up to position i, characters outside the alphabet skipped
PadsAt(cs, i) ==
    Cardinality({j \in 1..i : cs[j] = Base64Pad
                              /\ \A k \in j..i : ~IsChar64(cs[k])})

\* characters of the alphabet read up to position i
ReadAt(cs, i) == Cardinality({j \in 1..i : IsChar64(cs[j])})

\* a position where a padding is complete: nothing after it is read
PaddingEnds(cs) ==
    {i \in 1..Len(cs) : /\ cs[i] = Base64Pad
                        /\ (ReadAt(cs, i) % 4) >= 2
                        /\ (ReadAt(cs, i) % 4) + PadsAt(cs, i) >= 4}

\* the characters binascii.a2b_base64 decodes: those of the alphabet, up to
\* the first completed padding
Sextets(cs) ==
    LET end == IF PaddingEnds(cs) = {} THEN Len(cs) ELSE Min(PaddingEnds(cs))
        read == SelectSeq(SubSeq(cs, 1, end), IsChar64)
    IN [k \in 1..Len(read) |-> Index64(read[k])]

\* byte k of the decoded output: 4 characters stand for 3 bytes
ByteAt(q, k) ==
    LET g == 4 * ((k - 1) \div 3) IN
    CASE (k - 1) % 3 = 0 -> q[g + 1] * 4 + q[g + 2] \div 16
      [] (k - 1) % 3 = 1 -> (q[g + 2] % 16) * 16 + q[g + 3] \div 4
      [] OTHER -> (q[g + 3] % 4) * 64 + q[g + 4]

\* codecs.decode(s, 'base64'): binascii.a2b_base64; input that ends inside a
\* group without padding is an error
DecodeBase64(cs) ==
    LET q == Sextets(cs)
        whole == 3 * (Len(q) \div 4)
    IN IF Len(q) % 4 = 0 THEN [k \in 1..whole |-> ByteAt(q, k)]
       ELSE IF PaddingEnds(cs) = {} \/ Len(q) % 4 = 1 THEN PaddingError
       ELSE [k \in 1..(whole + (Len(q) % 4) - 1) |-> ByteAt(q, k)]

ClassKey == "__class__"
ValueKey == "__value__"
BytesClass == <<"b", "y", "t", "e", "s">>

\* to_json, lines 15-19: bytes become a tagged wrapper, anything else raises
to_json(python_object) ==
    IF python_object.kind = "bytes"
    THEN PyDict([c \in {ClassKey, ValueKey} |->
                 IF c = ClassKey THEN PyStr(BytesClass)
                 ELSE PyStr(EncodeBase64(python_object.val))])
    ELSE TypeError(python_object)

\* a decoder that hands the wrapper back as it is
from_json_KeepsWrapper(json_object) == json_object

\* from_json, lines 22-26
from_json(json_object) ==
    IF ClassKey \in DOMAIN json_object.val
          /\ json_object.val[ClassKey] = PyStr(BytesClass)
    THEN PyBytes(DecodeBase64(json_object.val[ValueKey].val))
    ELSE json_object


\* json.dump(obj, default=to_json): what json cannot serialise goes through
\* to_json first
RECURSIVE Dumps(_)
Dumps(x) ==
    CASE x.kind = "str" -> JString(x.val)
      [] x.kind = "int" -> JNumber(x.val)
      [] x.kind = "dict" -> JObject([k \in DOMAIN x.val |-> Dumps(x.val[k])])
      [] x.kind = "TypeError" -> x
      [] OTHER -> Dumps(to_json(x))

\* json.load(file, object_hook=from_json): every object decoded is handed to
\* from_json, innermost first
RECURSIVE Loads(_)
Loads(j) ==
    CASE j.kind = "string" -> PyStr(j.val)
      [] j.kind = "number" -> PyInt(j.val)
      [] j.kind = "object" -> from_json(PyDict([k \in DOMAIN j.val |-> Loads(j.val[k])]))
      [] OTHER -> j

\* the settings of a logged-in client: identifiers, a timestamp and the
\* pickled cookie jar (bytes) of up to MaxBytes bytes, or of about one line
MaxBytes == 3
ByteVals == {0, 77, 255}
CookieBytes ==
    UNION { [1..k -> ByteVals] : k \in 0..MaxBytes }
    \cup { [i \in 1..k |-> v] : v \in ByteVals,
                                k \in {ChunkSize - 1, ChunkSize, ChunkSize + 1} }
Uuids == { <<"u", "1">>, <<"u", "2">> }
Timestamps == {0, 1}
SettingsValues ==
    { PyDict([uuid |-> PyStr(u), created_ts |-> PyInt(n), cookie |-> PyBytes(b)])
        : u \in Uuids, n \in Timestamps, b \in CookieBytes }

\* lines 29-33: json.dump(api.settings, outfile, default=to_json)
onlogin_callback ==
    /\ settings # NoSettings
    /\ settings_file' = Dumps(settings)
    /\ UNCHANGED <<settings, cached_settings>>

\* lines 67-68: cached_settings = json.load(file_data, object_hook=from_json)
load_settings ==
    /\ settings_file # NoFile
    /\ cached_settings = NoSettings
    /\ cached_settings' = Loads(settings_file)
    /\ UNCHANGED <<settings, settings_file>>

\* a client is logged in, its settings not yet saved
SettingsInit ==
    /\ auto_patch = TRUE
    /\ NoCalls
    /\ settings \in SettingsValues
    /\ settings_file = NoFile
    /\ cached_settings = NoSettings
    /\ NoSession
    /\ NoPatching
    /\ NoAgent
    /\ NoUtils

SettingsNext ==
    \/ settings_file = NoFile /\ onlogin_callback
          /\ UNCHANGED <<auto_patch, calls, session, patching, agent, utils>>
    \/ load_settings /\ UNCHANGED <<auto_patch, calls, session, patching, agent, utils>>

SettingsSpec == SettingsInit /\ [][SettingsNext]_vars

\* ------------------------------------------------------- session and login
MaxLogins == 2       \* logins a run of the caller attempts
MaxCalls == 2        \* endpoint calls made on one client

\* the settings a login leaves in the client
FreshSettings ==
    { x \in SettingsValues : Len(x.val.cookie.val) = 1 /\ x.val.created_ts.val = 0 }

\* a server that answers a session it no longer honours like a valid one
CallOutcomes_Forgiving(valid) == {"ok", "login_required", "error"}

\* what the server answers to an endpoint call: a session it no longer
\* honours only gets login_required
CallOutcomes(valid) ==
    IF valid THEN {"ok", "login_required", "error"} ELSE {"login_required"}

\* Client(username, password, on_login=...) without settings sends the login
LoginSent(cb, position) ==
    /\ api' = [session |-> "AUTHENTICATING", on_login |-> cb]
    /\ logins' = logins + 1
    /\ results' = <<>>
    /\ spc' = position
    /\ UNCHANGED <<store, server_valid, snapshot_expired, auths, callbacks>>

\* lines 59-66: no settings file, login new (the tests log in without on_login)
login_new ==
    /\ spc = "start"
    /\ settings_file = NoFile
    /\ \E cb \in BOOLEAN : LoginSent(cb, "login")

\* the login returns status ok: the session is populated, on_login is due
login_ok ==
    /\ api.session = "AUTHENTICATING"
    /\ api' = [api EXCEPT !.session = "AUTHENTICATED"]
    /\ settings' \in FreshSettings
    /\ server_valid' = TRUE
    /\ auths' = Append(auths, api.on_login)
    /\ spc' = IF api.on_login THEN "on_login" ELSE "ready"
    /\ UNCHANGED <<settings_file, cached_settings, snapshot_expired, logins, callbacks, results>>

\* the login fails: ClientLoginError leaves the constructor; lines 86-88 exit
\* with 9 when it came from the try block, nothing catches it in the handler
login_failed ==
    /\ api.session = "AUTHENTICATING"
    /\ api' = NoApi
    /\ spc' = IF spc = "login" THEN "exit9" ELSE "uncaught"
    /\ UNCHANGED <<store, server_valid, snapshot_expired, logins, auths, callbacks, results>>

\* a callback that is run twice for one login
on_login_Twice ==
    /\ spc = "on_login"
    /\ callbacks' = Append(Append(callbacks, settings), settings)
    /\ onlogin_callback
    /\ spc' = "ready"
    /\ UNCHANGED <<api, server_valid, snapshot_expired, logins, auths, results>>

\* on_login(api): lines 66 and 29-33, the callback writes the settings file
on_login ==
    /\ spc = "on_login"
    /\ callbacks' = Append(callbacks, settings)
    /\ onlogin_callback
    /\ spc' = "ready"
    /\ UNCHANGED <<api, server_valid, snapshot_expired, logins, auths, results>>

\* a restore that treats the snapshot like a login and fires a callback
reuse_settings_Calling ==
    /\ spc = "start"
    /\ cached_settings # NoSettings
    /\ api' = [session |-> "AUTHENTICATED", on_login |-> FALSE]
    /\ settings' = cached_settings
    /\ server_valid' = ~snapshot_expired
    /\ callbacks' = Append(callbacks, cached_settings)
    /\ spc' = "ready"
    /\ UNCHANGED <<settings_file, cached_settings, snapshot_expired, logins, auths, results>>

\* lines 72-75: Client(..., settings=cached_settings): no login request; a
\* snapshot whose cookies have expired is accepted, or refused with
\* ClientCookieExpiredError as the handler of line 77 provides for
reuse_settings ==
    /\ spc = "start"
    /\ cached_settings # NoSettings
    /\ \/ /\ api' = [session |-> "AUTHENTICATED", on_login |-> FALSE]
          /\ settings' = cached_settings
          /\ server_valid' = ~snapshot_expired
          /\ spc' = "ready"
       \/ /\ snapshot_expired
          /\ spc' = "handler"
          /\ UNCHANGED <<api, settings, server_valid>>
    /\ UNCHANGED <<settings_file, cached_settings, snapshot_expired, logins, auths, callbacks, results>>

\* a relogin that does not hand over the callback
relogin_NoCallback ==
    /\ spc = "handler"
    /\ LoginSent(FALSE, "relogin")

\* lines 77-84: relogin with the on_login callback
relogin ==
    /\ spc = "handler"
    /\ LoginSent(TRUE, "relogin")

\* recovery from EXPIRED: a new client logs in with the stored credentials
recover ==
    /\ spc = "ready"
    /\ api.session = "EXPIRED"
    /\ logins < MaxLogins
    /\ \E cb \in BOOLEAN : LoginSent(cb, "relogin")

\* an endpoint call on the client (line 92: api.tag_search)
api_call ==
    /\ spc = "ready"
    /\ Len(results) < MaxCalls
    /\ \E o \in CallOutcomes(server_valid) :
         /\ results' = Append(results, o)
         /\ api' = IF o = "login_required" THEN [api EXCEPT !.session = "EXPIRED"] ELSE api
         /\ server_valid' = (server_valid /\ o # "login_required")
    /\ UNCHANGED <<store, snapshot_expired, logins, auths, callbacks, spc>>

\* the script starts with or without a settings file from an earlier run
SessionInit ==
    /\ auto_patch = TRUE
    /\ NoCalls
    /\ settings = NoSettings
    /\ cached_settings = NoSettings
    /\ \/ settings_file = NoFile /\ snapshot_expired = FALSE
       \/ settings_file \in {Dumps(x) : x \in FreshSettings} /\ snapshot_expired \in BOOLEAN
    /\ api = NoApi
    /\ server_valid = FALSE
    /\ logins = 0
    /\ auths = <<>>
    /\ callbacks = <<>>
    /\ results = <<>>
    /\ spc = "start"
    /\ NoPatching
    /\ NoAgent
    /\ NoUtils

SessionNext ==
    \/ login_new /\ UNCHANGED <<auto_patch, calls, patching, agent, utils>>
    \/ login_ok /\ UNCHANGED <<auto_patch, calls, patching, agent, utils>>
    \/ login_failed /\ UNCHANGED <<auto_patch, calls, patching, agent, utils>>
    \/ on_login /\ UNCHANGED <<auto_patch, calls, patching, agent, utils>>
    \/ load_settings /\ spc = "start" /\ UNCHANGED <<auto_patch, calls, session, patching, agent, utils>>
    \/ reuse_settings /\ UNCHANGED <<auto_patch, calls, patching, agent, utils>>
    \/ relogin /\ UNCHANGED <<auto_patch, calls, patching, agent, utils>>
    \/ recover /\ UNCHANGED <<auto_patch, calls, patching, agent, utils>>
    \/ api_call /\ UNCHANGED <<auto_patch, calls, patching, agent, utils>>

SessionSpec == SessionInit /\ [][SessionNext]_vars

\* one run of the example script, lines 56-94: it constructs the client, in
\* the handler of line 77 if need be, and calls the api; it logs in nowhere
\* else
ExampleNext ==
    \/ login_new /\ UNCHANGED <<auto_patch, calls, patching, agent, utils>>
    \/ login_ok /\ UNCHANGED <<auto_patch, calls, patching, agent, utils>>
    \/ login_failed /\ UNCHANGED <<auto_patch, calls, patching, agent, utils>>
    \/ on_login /\ UNCHANGED <<auto_patch, calls, patching, agent, utils>>
    \/ load_settings /\ spc = "start" /\ UNCHANGED <<auto_patch, calls, session, patching, agent, utils>>
    \/ reuse_settings /\ UNCHANGED <<auto_patch, calls, patching, agent, utils>>
    \/ relogin /\ UNCHANGED <<auto_patch, calls, patching, agent, utils>>
    \/ api_call /\ UNCHANGED <<auto_patch, calls, patching, agent, utils>>

ExampleSpec == SessionInit /\ [][ExampleNext]_vars

\* ------------------------------------------------- compatibility patcher
MaxPatches == 2      \* times a patch is applied to one entity

Kinds == {"media", "comment", "user", "list_user"}

\* a patch that derives one legacy field from another legacy field
LegacyOf_Chained(k) == { <<"id", "pk">>, <<"link", "id">> }

\* the legacy fields a patch adds, each with the field it is derived from
LegacyOf(k) ==
    CASE k = "media" ->
           { <<"link", "code">>, <<"created_time", "taken_at">>,
             <<"images", "image_versions2">>, <<"type", "media_type">>,
             <<"filter", "filter_type">> }
      [] k = "comment" ->
           { <<"id", "pk">>, <<"created_time", "created_at">>, <<"from", "user">> }
      [] k = "user" ->
           { <<"id", "pk">>, <<"bio", "biography">>,
             <<"profile_picture", "profile_pic_url">>, <<"website", "external_url">> }
      [] OTHER ->
           { <<"id", "pk">>, <<"profile_picture", "profile_pic_url">> }

\* fields of the raw entity that have no legacy equivalent
NoLegacyEquivalent(k) ==
    CASE k = "media" -> {"organic_tracking_token"}
      [] k = "comment" -> {"content_type", "media_id"}
      [] OTHER -> {"has_anonymous_profile_picture"}

\* a legacy value: the shorthand, string or permalink made of v
Derive(legacy, v) == <<legacy, v>>

\* a patch that removes the fields whatever the flag says
Kept_AlwaysDropping(k, fields, drop) == fields \ NoLegacyEquivalent(k)

\* drop_incompat_keys: the fields left after patching
Kept(k, fields, drop) ==
    IF drop THEN fields \ NoLegacyEquivalent(k) ELSE fields

\* ClientCompatPatch.media / comment / user / list_user on entity e
RECURSIVE Patch(_, _, _)
Patch(k, e, drop) ==
    LET derivable == {p \in LegacyOf(k) : p[2] \in DOMAIN e}
        fields == DOMAIN e \cup {p[1] : p \in derivable}
        value(f) ==
            IF \E p \in derivable : p[1] = f
            THEN LET p == CHOOSE q \in derivable : q[1] = f
                 IN Derive(f, e[p[2]])
            ELSE IF f = "user" /\ k = "media" THEN Patch("list_user", e[f], drop)
            ELSE e[f]
    IN [f \in Kept(k, fields, drop) |-> value(f)]

\* e without the fields of S
Without(e, S) == [f \in DOMAIN e \ S |-> e[f]]

\* entities as the server sends them, with or without the fields that have
\* no legacy equivalent
RawListUsers ==
    { Without([pk |-> n, profile_pic_url |-> "pic", username |-> "x",
               has_anonymous_profile_picture |-> FALSE], S)
        : n \in 1..2, S \in SUBSET NoLegacyEquivalent("list_user") }
RawUsers ==
    { Without([pk |-> n, profile_pic_url |-> "pic", username |-> "x",
               biography |-> b, external_url |-> "site",
               has_anonymous_profile_picture |-> FALSE], S)
        : n \in 1..2, b \in {"", "bio"}, S \in SUBSET NoLegacyEquivalent("user") }
RawComments ==
    { Without([pk |-> n, created_at |-> ts, text |-> ":)", user |-> u,
               content_type |-> "comment", media_id |-> 1], S)
        : n \in 1..2, ts \in TimeVals, u \in RawListUsers,
          S \in {{}, NoLegacyEquivalent("comment")} }
RawMedia ==
    { Without([id |-> "1_2", code |-> "code", taken_at |-> ts,
               image_versions2 |-> "candidates", media_type |-> mt,
               filter_type |-> 0, user |-> u, organic_tracking_token |-> "token"], S)
        : ts \in TimeVals, mt \in {1, 2}, u \in RawListUsers,
          S \in SUBSET NoLegacyEquivalent("media") }
RawOf(k) ==
    CASE k = "media" -> RawMedia [] k = "comment" -> RawComments
      [] k = "user" -> RawUsers [] OTHER -> RawListUsers

\* the patch is applied, in place
Apply(k) ==
    /\ kind = k
    /\ patches < MaxPatches
    /\ entity' = Patch(k, entity, drop_incompat_keys)
    /\ once' = IF patches = 0 THEN entity' ELSE once
    /\ patches' = patches + 1
    /\ UNCHANGED <<kind, drop_incompat_keys, raw>>

media == Apply("media")
comment == Apply("comment")
user == Apply("user")
list_user == Apply("list_user")

\* media_patched = copy.deepcopy(media), before ClientCompatPatch is called
PatchInit ==
    /\ auto_patch = TRUE
    /\ NoCalls
    /\ NoStore
    /\ NoSession
    /\ kind \in Kinds
    /\ drop_incompat_keys \in BOOLEAN
    /\ raw \in RawOf(kind)
    /\ entity = raw
    /\ once = NoEntity
    /\ patches = 0
    /\ NoAgent
    /\ NoUtils

PatchNext ==
    \/ media /\ UNCHANGED <<auto_patch, calls, store, session, agent, utils>>
    \/ comment /\ UNCHANGED <<auto_patch, calls, store, session, agent, utils>>
    \/ user /\ UNCHANGED <<auto_patch, calls, store, session, agent, utils>>
    \/ list_user /\ UNCHANGED <<auto_patch, calls, store, session, agent, utils>>

PatchSpec == PatchInit /\ [][PatchNext]_vars

\* ------------------------------------------------------------ user agent
\* A descriptor is the sequence of its segments,
\*   <<AppName, Version, Platform, androidVersion, androidRelease, dpi,
\*     resolution, manufacturer, device, model, chipset, locale>>,
\* the androidVersion segment being the sequence of its characters.
APP_VERSION == "10.9.0"
Locale == "en_US"
None == "None"

DecimalDigits == <<"0", "1", "2", "3", "4", "5", "6", "7", "8", "9">>
IsDigit(c) == \E i \in DOMAIN DecimalDigits : DecimalDigits[i] = c
DigitValue(c) == (CHOOSE i \in DOMAIN DecimalDigits : DecimalDigits[i] = c) - 1

\* '%d' % n
RECURSIVE Decimal(_)
Decimal(n) ==
    IF n < Len(DecimalDigits) THEN <<DecimalDigits[n + 1]>>
    ELSE Append(Decimal(n \div Len(DecimalDigits)), DecimalDigits[(n % Len(DecimalDigits)) + 1])

IsNumeric(cs) == Len(cs) > 0 /\ \A i \in DOMAIN cs : IsDigit(cs[i])

\* int(cs), for a numeric cs
RECURSIVE IntOf(_)
IntOf(cs) ==
    IF cs = <<>> THEN 0
    ELSE IntOf(SubSeq(cs, 1, Len(cs) - 1)) * Len(DecimalDigits) + DigitValue(cs[Len(cs)])

\* Client.generate_useragent(**kwargs)
FormatUseragent(d) ==
    << "Instagram",
       IF d.app_version = None THEN APP_VERSION ELSE d.app_version,
       "Android",
       Decimal(d.android_version), d.android_release,
       d.phone_dpi, d.phone_resolution, d.phone_manufacturer,
       d.phone_device, d.phone_model, d.phone_chipset,
       Locale >>

\* the descriptor fits the format: its androidVersion segment is numeric
WellFormed(value) == IsNumeric(value[4])

\* results['parsed_params'] of Client.validate_useragent(value)
ParseUseragent(value) ==
    [ brand |-> value[8], device |-> value[9], model |-> value[10],
      resolution |-> value[7], dpi |-> value[6], chipset |-> value[11],
      android_version |-> IntOf(value[4]), android_release |-> value[5],
      app_version |-> value[2] ]

\* the keyword arguments of generate_useragent made of parsed_params
KwargsOf(pp) ==
    [ app_version |-> pp.app_version,
      android_version |-> pp.android_version,
      android_release |-> pp.android_release,
      phone_dpi |-> pp.dpi, phone_resolution |-> pp.resolution,
      phone_manufacturer |-> pp.brand, phone_device |-> pp.device,
      phone_model |-> pp.model, phone_chipset |-> pp.chipset ]

\* device fields a caller may hand to generate_useragent
Devices ==
    { [ app_version |-> v, android_version |-> av, android_release |-> ar,
        phone_dpi |-> "320dpi", phone_resolution |-> "720x1280",
        phone_manufacturer |-> b, phone_device |-> "Galaxy Nexus",
        phone_model |-> "maguro", phone_chipset |-> "qcom" ]
        : v \in {None, "9.2.0"}, av \in {18, 22}, ar \in {"4.3", "5.1.1"},
          b \in {"Samsung", "Xiaomi"} }

\* descriptors a caller may hand to validate_useragent
Descriptors ==
    { << "Instagram", v, "Android", seg, ar, "480dpi", "1080x1920", b,
         "Redmi Note 3", "kenzo", "qcom", l >>
        : v \in {"9.2.0", APP_VERSION},
          seg \in {<<"1", "8">>, <<"2", "2">>, <<"0", "2", "2">>, <<"x", "x">>,
                   <<"2", "x">>, <<>>},
          ar \in {"4.3", "5.1.1"}, b \in {"Samsung", "Xiaomi"},
          l \in {"en_US", "en_GB"} }

generate_useragent ==
    /\ \E d \in Devices \cup (IF parsed_params = NoParams THEN {}
                              ELSE {KwargsOf(parsed_params)}) :
           /\ custom_device' = d
           /\ custom_ua' = FormatUseragent(d)
           /\ from_parsed' = (parsed_params # NoParams /\ d = KwargsOf(parsed_params))
    /\ UNCHANGED <<ua, parsed_params, ua_error>>

\* a parser that gives up on a malformed descriptor without raising
validate_useragent_Quiet ==
    /\ \E value \in Descriptors \cup ({custom_ua} \ {NoUseragent}) :
           /\ ua' = value
           /\ IF WellFormed(value)
              THEN parsed_params' = ParseUseragent(value) /\ ua_error' = "none"
              ELSE parsed_params' = NoParams /\ ua_error' = "none"
    /\ from_parsed' = FALSE
    /\ UNCHANGED <<custom_device, custom_ua>>

validate_useragent ==
    /\ \E value \in Descriptors \cup ({custom_ua} \ {NoUseragent}) :
           /\ ua' = value
           /\ IF WellFormed(value)
              THEN parsed_params' = ParseUseragent(value) /\ ua_error' = "none"
              ELSE parsed_params' = NoParams /\ ua_error' = "ValueError"
    /\ from_parsed' = FALSE
    /\ UNCHANGED <<custom_device, custom_ua>>

AgentInit ==
    /\ auto_patch = TRUE
    /\ NoCalls
    /\ NoStore
    /\ NoSession
    /\ NoPatching
    /\ NoAgent
    /\ NoUtils

AgentNext ==
    \/ generate_useragent /\ UNCHANGED <<auto_patch, calls, store, session, patching, utils>>
    \/ validate_useragent /\ UNCHANGED <<auto_patch, calls, store, session, patching, utils>>

AgentSpec == AgentInit /\ [][AgentNext]_vars

\* ------------------------------------------------------------ InstagramID
MaxIdCalls == 2      \* InstagramID calls made in one run

\* the shortcode alphabet: digit n is ENCODING_CHARS[n + 1]
ENCODING_CHARS == SubSeq(Base64Chars, 1, Len(Base64Chars) - 2) \o <<"-", "_">>
CodeIndex(c) == (CHOOSE i \in DOMAIN ENCODING_CHARS : ENCODING_CHARS[i] = c) - 1

\* InstagramID._encode(num): num written in base len(alphabet)
RECURSIVE Encode(_)
Encode(num) ==
    IF num < Len(ENCODING_CHARS) THEN <<ENCODING_CHARS[num + 1]>>
    ELSE Append(Encode(num \div Len(ENCODING_CHARS)),
                ENCODING_CHARS[(num % Len(ENCODING_CHARS)) + 1])

\* InstagramID._decode(shortcode), most significant digit first
RECURSIVE Decode(_)
Decode(shortcode) ==
    IF shortcode = <<>> THEN 0
    ELSE Decode(SubSeq(shortcode, 1, Len(shortcode) - 1)) * Len(ENCODING_CHARS)
             + CodeIndex(shortcode[Len(shortcode)])

\* media_id.split('_'): the characters before the first underscore
InternalPart(media_id) ==
    LET us == {i \in DOMAIN media_id : media_id[i] = "_"}
        first == CHOOSE i \in us : \A j \in us : i <= j
    IN SubSeq(media_id, 1, first - 1)

ShortenId(internal_id) == Encode(internal_id)
ExpandCode(short_code) == Decode(short_code)
ShortenMediaId(media_id) == ShortenId(IntOf(InternalPart(media_id)))
WeblinkFromMediaId(media_id) ==
    <<"https://www.instagram.com/p/">> \o ShortenMediaId(media_id) \o <<"/">>

\* arguments the callers pass
InternalIds == {0, 1, 63, 64, 65, 4095, 4096, 262143}
ShortCodes ==
    { <<"A">>, <<"B">>, <<"_">>, <<"B", "A">>, <<"B", "_">>, <<"-", "9">>,
      <<"A", "B">>, <<"A", "A">>, <<"B", "R", "o">> }
MediaIdOf(i, u) == Decimal(i) \o <<"_">> \o Decimal(u)
MediaIds == { MediaIdOf(i, u) : i \in {0, 64, 4095}, u \in {7, 25025} }

\* the result of the last call, when it was made by one of methods
LastOut(methods) ==
    IF idcalls # <<>> /\ idcalls[Len(idcalls)].method \in methods
    THEN {idcalls[Len(idcalls)].out} ELSE {}

Called(m, arg, out) ==
    /\ Len(idcalls) < MaxIdCalls
    /\ idcalls' = Append(idcalls, [method |-> m, arg |-> arg, out |-> out])
    /\ UNCHANGED signings

\* a decoder that reads the least significant digit first
expand_code_Reversed ==
    \E c \in ShortCodes \cup LastOut({"shorten_id", "shorten_media_id"}) :
        Called("expand_code", c,
               ExpandCode([i \in DOMAIN c |-> c[Len(c) + 1 - i]]))

shorten_id ==
    \E i \in InternalIds \cup LastOut({"expand_code"}) :
        Called("shorten_id", i, ShortenId(i))

expand_code ==
    \E c \in ShortCodes \cup LastOut({"shorten_id", "shorten_media_id"}) :
        Called("expand_code", c, ExpandCode(c))

shorten_media_id ==
    \E m \in MediaIds : Called("shorten_media_id", m, ShortenMediaId(m))

weblink_from_media_id ==
    \E m \in MediaIds : Called("weblink_from_media_id", m, WeblinkFromMediaId(m))

IdInit ==
    /\ auto_patch = TRUE
    /\ NoCalls
    /\ NoStore
    /\ NoSession
    /\ NoPatching
    /\ NoAgent
    /\ NoUtils

IdNext ==
    \/ shorten_id /\ UNCHANGED <<auto_patch, calls, store, session, patching, agent>>
    \/ expand_code /\ UNCHANGED <<auto_patch, calls, store, session, patching, agent>>
    \/ shorten_media_id /\ UNCHANGED <<auto_patch, calls, store, session, patching, agent>>
    \/ weblink_from_media_id /\ UNCHANGED <<auto_patch, calls, store, session, patching, agent>>

IdSpec == IdInit /\ [][IdNext]_vars

\* ---------------------------------------------------------------- signing
MaxSignings == 2     \* signing calls made in one run

\* the fixed shared secret
SIG_KEY == <<"s", "e", "c">>

\* the characters a key, a payload or a digest is made of
SignChars == <<"{", "}", "q", ":", ",", ".", "a", "b", "c", "e", "k", "s", "u">>
CharCode(c) == CHOOSE i \in DOMAIN SignChars : SignChars[i] = c
HexDigits == <<"0", "1", "2", "3", "4", "5", "6", "7",
               "8", "9", "a", "b", "c", "d", "e", "f">>

\* json.dumps of a string: the characters between quotes (written q)
Quoted(cs) == <<"q">> \o cs \o <<"q">>

\* json.dumps(params): the pairs in the order of the mapping
RECURSIVE JsonPairs(_)
JsonPairs(ps) ==
    IF ps = <<>> THEN <<>>
    ELSE Quoted(<<ps[1][1]>>) \o <<":">> \o Quoted(ps[1][2])
             \o (IF Len(ps) > 1 THEN <<",">> ELSE <<>>) \o JsonPairs(Tail(ps))
JsonPayload(ps) == <<"{">> \o JsonPairs(ps) \o <<"}">>

\* a keyed digest written in hexadecimal: stands for HMAC-SHA256(key, data).
\* It depends on every character of key and data and on their order.
RECURSIVE Weighted(_)
Weighted(cs) ==
    IF cs = <<>> THEN 0
    ELSE Weighted(SubSeq(cs, 1, Len(cs) - 1)) + Len(cs) * CharCode(cs[Len(cs)])
HexDigest(key, data) ==
    LET n == Weighted(key \o data) % (Len(HexDigits) * Len(HexDigits))
    IN <<HexDigits[(n \div Len(HexDigits)) + 1], HexDigits[(n % Len(HexDigits)) + 1]>>

\* hash_sig + '.' + json_params
SignedBody(ps) ==
    HexDigest(SIG_KEY, JsonPayload(ps)) \o <<".">> \o JsonPayload(ps)

\* parameter mappings: one or two pairs, keys distinct, in either order
ParamValues == {<<>>, <<"a">>, <<"a", ".", "b">>}
ParamMappings ==
    {<<>>}
    \cup { <<<<k, v>>>> : k \in {"k", "u"}, v \in ParamValues }
    \cup { << <<ks[1], v1>>, <<ks[2], v2>> >> :
             ks \in {<<"k", "u">>, <<"u", "k">>},
             v1 \in ParamValues, v2 \in ParamValues }

\* the mapping with its pairs in the other order
Reordered(ps) == [i \in DOMAIN ps |-> ps[Len(ps) + 1 - i]]

\* a signer that signs one serialisation and sends another
sign_Reserialising ==
    /\ Len(signings) < MaxSignings
    /\ \E ps \in ParamMappings :
           signings' = Append(signings,
               [ params |-> ps,
                 signed_body |-> HexDigest(SIG_KEY, JsonPayload(Reordered(ps)))
                                     \o <<".">> \o JsonPayload(ps) ])
    /\ UNCHANGED idcalls

sign ==
    /\ Len(signings) < MaxSignings
    /\ \E ps \in ParamMappings :
           signings' = Append(signings, [params |-> ps, signed_body |-> SignedBody(ps)])
    /\ UNCHANGED idcalls

SignInit ==
    /\ auto_patch = TRUE
    /\ NoCalls
    /\ NoStore
    /\ NoSession
    /\ NoPatching
    /\ NoAgent
    /\ NoUtils

SignNext == sign /\ UNCHANGED <<auto_patch, calls, store, session, patching, agent>>

SignSpec == SignInit /\ [][SignNext]_vars

\* ------------------------------------------------- reading the state
\* the list field and the more-pages flag of a response of either helper
PageItems(r) == IF "feed_items" \in DOMAIN r THEN r.feed_items ELSE r.comments
MoreFlag(r) == IF "more_available" \in DOMAIN r THEN r.more_available ELSE r.has_more_comments
ItemId(x) == IF "id" \in DOMAIN x THEN x.id ELSE x.pk
Ids(s) == [i \in 1..Len(s) |-> ItemId(s[i])]

\* the items of the pages P[1..k], in page order
RECURSIVE ConcatTo(_, _)
ConcatTo(P, k) == IF k = 0 THEN <<>> ELSE ConcatTo(P, k - 1) \o PageItems(P[k])
Concat(P) == ConcatTo(P, Len(P))

LastPage(t) == pages[t][Len(pages[t])]
Paginating(t) == call[t].method \in {"feed_timeline", "media_n_comments"}
RequestsOf(t) == Cardinality({i \in 1..Len(requests) : requests[i].thread = t})
\* the helper is past its loop: it returned, or its final sort failed
Ended(t) == pc[t] = "done" \/ (pc[t] = "raised" /\ err[t] = "KeyError")
\* this step issues a request on behalf of t
Requests(t) ==
    /\ Len(requests') = Len(requests) + 1
    /\ requests'[Len(requests')].thread = t

BagOf(s) == [x \in {s[i] : i \in 1..Len(s)} |-> Cardinality({i \in 1..Len(s) : s[i] = x})]

C2_RequestOnlyWhileMore ==
    /\ [][\A t \in Threads :
            (Paginating(t) /\ pages[t] # <<>> /\ Requests(t)) =>
                /\ MoreFlag(res[t])
                /\ res[t].next_max_id # NoCursor
                /\ Len(items[t]) < call[t].n]_vars
    /\ [](\A t \in Threads :
            (/\ Paginating(t) /\ pages[t] # <<>>
             /\ (call[t].n <= 0 \/ Len(PageItems(pages[t][1])) >= call[t].n))
                => RequestsOf(t) = 1)

\* a helper issued a third request, from a second page that had the flag and
\* a cursor
C2_Witness ==
    \E t \in Threads :
        /\ Paginating(t) /\ RequestsOf(t) = 3 /\ Len(pages[t]) = 3
        /\ MoreFlag(pages[t][2]) /\ pages[t][2].next_max_id # NoCursor

\* ------------------------------------------------------------------ C3
\* the last response has an empty cursor or an empty list although its
\* more-pages flag is set
Inconsistent(r) ==
    MoreFlag(r) /\ (r.next_max_id = NoCursor \/ PageItems(r) = <<>>)

AllContinuable(P) ==
    \A i \in 1..Len(P) :
        MoreFlag(P[i]) /\ P[i].next_max_id # NoCursor /\ PageItems(P[i]) # <<>>

\* C4: when media_n_comments is past its loop and the pages served hold n
\* comments or more (or every page so far was continuable, so that the
\* server's later pages would), it has returned a list of at least n comments.
C4_AtLeastN ==
    \A t \in Threads :
        (/\ call[t].method = "media_n_comments" /\ Ended(t)
         /\ (Len(Concat(pages[t])) >= call[t].n \/ AllContinuable(pages[t])))
            => (pc[t] = "done" /\ Len(ret[t].value) >= call[t].n)

\* ------------------------------------------------------------------ C5
\* s is ordered by created_time: non-decreasing, or non-increasing if reverse
Ordered(s, reverse) ==
    \A i, j \in 1..Len(s) :
        i < j => IF reverse THEN s[i].created_time >= s[j].created_time
                            ELSE s[i].created_time <= s[j].created_time

\* C5: the list media_n_comments returns holds exactly the comments it
\* accumulated over the pages fetched, each as often as it was fetched, in
\* created_time order (descending when reverse).
C5_SortedPermutation ==
    \A t \in Threads :
        (call[t].method = "media_n_comments" /\ pc[t] = "done") =>
            /\ BagOf(ret[t].value) = BagOf(items[t])
            /\ Len(ret[t].value) = Len(items[t])
            /\ BagOf(Ids(ret[t].value)) = BagOf(Ids(Concat(pages[t])))
            /\ Ordered(ret[t].value, call[t].reverse)

\* a reversed call returned comments of two different times that the server
\* sent in ascending order
C5_Witness ==
    \E t \in Threads :
        /\ call[t].method = "media_n_comments" /\ pc[t] = "done"
        /\ call[t].reverse
        /\ Len(ret[t].value) >= 3
        /\ items[t][1].created_time < items[t][2].created_time
        /\ ret[t].value[1].created_time > ret[t].value[Len(ret[t].value)].created_time

\* ------------------------------------------------------------------ C6
\* C6: feed_timeline returns the response envelope, a mapping whose status is
\* ok and that has a feed_items list.
C6_ReturnsEnvelope ==
    \A t \in Threads :
        (call[t].method = "feed_timeline" /\ pc[t] = "done") =>
            /\ ret[t].kind = "mapping"
            /\ ret[t].value.status = "ok"
            /\ "feed_items" \in DOMAIN ret[t].value

\* ------------------------------------------------------------------ C7
\* C7: with auto_patch, no feed item returned by feed_timeline still has an
\* unpatched media_or_ad entry, whatever page it came from.
C7_EveryPagePatched ==
    \A t \in Threads :
        (call[t].method = "feed_timeline" /\ pc[t] = "done" /\ auto_patch) =>
            \A i \in 1..Len(items[t]) : items[t][i].media_or_ad # "raw"

\* ------------------------------------------------------------------ C8
Posted(t) == call[t].method = "post_comment" /\ pc[t] \in {"done", "raised"}

\* a text fails one of the four tests post_comment applies
FailsValidation(text) ==
    TooLong(text) \/ AllCapitals(text) \/ TooManyHashtags(text) \/ TooManyUrls(text)

C9_LengthRule ==
    \A t \in Threads :
        Posted(t) =>
            /\ Len(call[t].comment_text) > MaxCommentLength => err[t] = "ValueError"
            /\ msg[t] = LengthError => Len(call[t].comment_text) > MaxCommentLength

\* a text of 301 characters was refused
C9_Witness ==
    \E t \in Threads :
        /\ Posted(t) /\ err[t] = "ValueError" /\ msg[t] = LengthError
        /\ Len(call[t].comment_text) = MaxCommentLength + 1

\* ------------------------------------------------------------------ C10
HasLetter(text) == \E i \in 1..Len(text) : text[i] \in Letters
HasLowerLetter(text) == \E i \in 1..Len(text) : text[i] \in AsciiLower \cup OtherLower

\* C10: every text that has a letter and no lower-case letter is refused with
\* ValueError, and the capitals message is raised for no text that has a
\* lower-case letter or no letter.
C10_CapitalsRule ==
    \A t \in Threads :
        Posted(t) =>
            /\ (HasLetter(call[t].comment_text) /\ ~HasLowerLetter(call[t].comment_text))
                   => err[t] = "ValueError"
            /\ msg[t] = CapitalsError
                   => (HasLetter(call[t].comment_text) /\ ~HasLowerLetter(call[t].comment_text))

\* ------------------------------------------------------------------ C11
\* the '#' at i introduces a token: a word character follows it before the
\* next '#', whatever lies between (nothing, a space, a line break)
IntroducesToken(text, i) ==
    /\ text[i] = "#"
    /\ \E k \in (i + 1)..Len(text) :
          text[k] \in WordChars /\ \A j \in (i + 1)..k : text[j] # "#"
HashtagTokens(text) == Cardinality({i \in 1..Len(text) : IntroducesToken(text, i)})

UrlChar(text, k) == k \in 1..Len(text) /\ text[k] \notin Spaces \cup {","}
BeginsUrl(text, i) ==
    \E q \in (i + 1)..Len(text) :
        /\ ~IsWord(text, i - 1)
        /\ (LitAt(text, i, HttpScheme) /\ q = i + Len(HttpScheme))
              \/ (LitAt(text, i, HttpsScheme) /\ q = i + Len(HttpsScheme))
        /\ \E d \in (q + 1)..(Len(text) - 1) :
              /\ text[d] = "."
              /\ \A k \in q..(d + 1) : UrlChar(text, k)
UrlTokens(text) == Cardinality({i \in 1..Len(text) : BeginsUrl(text, i)})

\* C12: every text with more than 1 http/https URL is refused with
\* ValueError, also when only a comma separates the URLs, and the URL message
\* is raised for no text with at most 1.
C12_UrlRule ==
    \A t \in Threads :
        Posted(t) =>
            /\ UrlTokens(call[t].comment_text) > MaxUrls => err[t] = "ValueError"
            /\ msg[t] = UrlsError => UrlTokens(call[t].comment_text) > MaxUrls

\* ------------------------------------------------------------------ C13
NonPaginating(t) == call[t].method \in {"media_info", "media_comments", "user_feed"}

\* C13: an invocation of media_info, media_comments or user_feed is one step
\* that issues one request; when it has ended it has issued exactly one, and
\* when that request failed the method ended in the ClientError of that
\* response, with the HTTP code the server sent, and returned nothing.
C13_NoRetry ==
    /\ [][\A t \in Threads :
            (pc[t] = "idle" /\ call'[t].method \in {"media_info", "media_comments", "user_feed"})
                => (Requests(t) /\ pc'[t] \in {"done", "raised"})]_vars
    /\ [](\A t \in Threads :
            NonPaginating(t) =>
                /\ RequestsOf(t) = 1 /\ Len(pages[t]) = 1
                /\ pages[t][1].status = "fail" =>
                       /\ pc[t] = "raised" /\ err[t] = "ClientError"
                       /\ code[t] = pages[t][1].code
                       /\ ret[t] = NoRet
                /\ pages[t][1].status = "ok" => pc[t] = "done")

\* media_info failed with code 400 after its only request
C13_Witness ==
    \E t \in Threads :
        /\ call[t].method = "media_info" /\ pc[t] = "raised"
        /\ err[t] = "ClientError" /\ code[t] = 400
        /\ RequestsOf(t) = 1 /\ Len(requests) = 1

\* ------------------------------------------------------------------ C14
\* C14: the settings loaded from the file equal the settings that were saved:
\* the cookie bytes are the same bytes, to_json then from_json gives them
\* back, every other value is unchanged, and the file holds no bytes.
C14_SettingsRoundTrip ==
    /\ settings_file # NoFile =>
           /\ settings_file.kind = "object"
           /\ \A k \in DOMAIN settings_file.val :
                  settings_file.val[k].kind \in {"string", "number", "object"}
           /\ from_json(to_json(settings.val.cookie)) = settings.val.cookie
    /\ cached_settings # NoSettings =>
           /\ cached_settings = settings
           /\ cached_settings.val.cookie.kind = "bytes"
           /\ cached_settings.val.cookie.val = settings.val.cookie.val
           /\ \A k \in DOMAIN settings.val : cached_settings.val[k] = settings.val[k]

\* settings with a cookie of more than one line of base64 were saved and
\* loaded again
C14_Witness ==
    /\ cached_settings # NoSettings
    /\ cached_settings = settings
    /\ Len(settings.val.cookie.val) = ChunkSize + 1
    /\ settings_file.val.cookie.kind = "object"

\* ------------------------------------------------------------------ C15
\* successful logins so far that had an on_login supplied
RECURSIVE Supplied(_, _)
Supplied(a, k) == IF k = 0 THEN 0 ELSE Supplied(a, k - 1) + (IF a[k] THEN 1 ELSE 0)

\* C15: on_login is invoked only as the step that follows a login answered
\* with status ok on a client that was given one, with the settings that
\* login populated; so it has been invoked once per such login, never after
\* a failed login and never by an endpoint call.
C15_CallbackOncePerLogin ==
    /\ [][callbacks' # callbacks =>
            /\ spc = "on_login"
            /\ api.session = "AUTHENTICATED" /\ api.on_login
            /\ auths # <<>> /\ settings \in FreshSettings
            /\ callbacks' = Append(callbacks, settings)
            /\ UNCHANGED <<logins, auths, results>>]_vars
    /\ [](Len(callbacks) + (IF spc = "on_login" THEN 1 ELSE 0)
              = Supplied(auths, Len(auths)))
    /\ [](spc \in {"exit9", "uncaught"} => Len(callbacks) = Supplied(auths, Len(auths)))

\* two logins with on_login succeeded, one call in between failed, and the
\* callback has run twice
C15_Witness ==
    /\ Len(callbacks) = 2 /\ Len(auths) = 2 /\ logins = 2
    /\ spc = "ready" /\ results # <<>>

\* ------------------------------------------------------------------ C16
\* this step constructs the client from the cached settings
Restores == spc = "start" /\ cached_settings # NoSettings /\ spc' # spc

C17_ExpiredIsTerminal ==
    /\ [](\A i, j \in 1..Len(results) :
              (i < j /\ results[i] = "login_required") => results[j] = "login_required")
    /\ [](api.session = "EXPIRED" =>
              (results # <<>> /\ results[Len(results)] = "login_required"))
    /\ [][(api.session = "EXPIRED" /\ api' # api) =>
              (api'.session = "AUTHENTICATING" /\ logins' = logins + 1)]_vars
    /\ [][(api.session = "EXPIRED" /\ results' # results /\ api' = api) =>
              results' = Append(results, "login_required")]_vars

\* two calls in a row on one client failed with login_required
C17_Witness ==
    /\ api.session = "EXPIRED"
    /\ Len(results) >= 2
    /\ results[Len(results) - 1] = "login_required"
    /\ results[Len(results)] = "login_required"

\* ------------------------------------------------------------------ C18
\* C18: an entity patched twice (or more) equals the entity patched once, for
\* each of the four patches and either value of drop_incompat_keys.
C18_PatchIdempotent ==
    /\ patches >= 1 => once = Patch(kind, raw, drop_incompat_keys)
    /\ patches >= 2 =>
           /\ entity = once
           /\ Patch(kind, Patch(kind, raw, drop_incompat_keys), drop_incompat_keys)
                  = Patch(kind, raw, drop_incompat_keys)

\* a comment was patched twice with drop_incompat_keys set and has its
\* legacy fields
C18_Witness ==
    /\ patches = 2 /\ kind = "comment" /\ drop_incompat_keys
    /\ entity = once /\ entity # raw
    /\ "created_time" \in DOMAIN entity

\* ------------------------------------------------------------------ C19
\* the legacy fields C19 names, per entity and for the user inside a media
Named(k) ==
    CASE k = "media" -> {"link", "created_time", "images", "type", "filter"}
      [] k = "comment" -> {"id", "created_time", "from"}
      [] OTHER -> {}
NamedOfUser == {"id", "profile_picture"}

\* every field of r is in e with its value, the user inside compared field
\* by field
RECURSIVE Retains(_, _)
Retains(r, e) ==
    \A f \in DOMAIN r :
        /\ f \in DOMAIN e
        /\ IF f = "user" /\ "pk" \notin DOMAIN e[f] THEN FALSE
           ELSE IF f = "user" THEN Retains(r[f], e[f])
           ELSE e[f] = r[f]

HasLegacy(k, r, e) ==
    /\ Named(k) \subseteq DOMAIN e
    /\ Named(k) \cap DOMAIN r = {}
    /\ k = "media" => (NamedOfUser \subseteq DOMAIN e.user
                       /\ NamedOfUser \cap DOMAIN r.user = {})

\* C19 (as stated): a patched entity retains every field of the raw entity
\* with its value and has the legacy fields the raw entity lacked, for either
\* value of drop_incompat_keys.
C19_AdditiveEitherWay ==
    patches >= 1 => (Retains(raw, entity) /\ HasLegacy(kind, raw, entity))

\* C19 (amended): a patched entity has the legacy fields the raw entity
\* lacked; with drop_incompat_keys false it retains every field of the raw
\* entity with its value; with drop_incompat_keys true it retains every raw
\* field that has a legacy equivalent, and the others are removed.
C19_AdditiveUnlessDropping ==
    patches >= 1 =>
        /\ HasLegacy(kind, raw, entity)
        /\ ~drop_incompat_keys => Retains(raw, entity)
        /\ drop_incompat_keys =>
               /\ DOMAIN entity \cap NoLegacyEquivalent(kind) = {}
               /\ \A f \in DOMAIN raw \ (NoLegacyEquivalent(kind) \cup {"user"}) :
                      f \in DOMAIN entity /\ entity[f] = raw[f]

\* a media was patched with drop_incompat_keys set: a raw field is gone, the
\* legacy fields are there
C19_Witness ==
    /\ patches >= 1 /\ kind = "media" /\ drop_incompat_keys
    /\ "organic_tracking_token" \in DOMAIN raw
    /\ "organic_tracking_token" \notin DOMAIN entity
    /\ "link" \in DOMAIN entity /\ "id" \in DOMAIN entity.user

\* ------------------------------------------------------------------ C20
\* the parsed fields are the device fields, one by one
SameFields(d, pp) ==
    /\ pp.android_version = d.android_version
    /\ pp.android_release = d.android_release
    /\ pp.dpi = d.phone_dpi
    /\ pp.resolution = d.phone_resolution
    /\ pp.brand = d.phone_manufacturer
    /\ pp.device = d.phone_device
    /\ pp.model = d.phone_model
    /\ pp.chipset = d.phone_chipset
    /\ d.app_version # None => pp.app_version = d.app_version

\* the string generate_useragent returned was parsed
ParsedGenerated ==
    custom_ua # NoUseragent /\ ua = custom_ua /\ parsed_params # NoParams

\* C20 (first half): parsing the string generated from a set of device fields
\* returns exactly those fields.
C20_ParseOfGenerated == ParsedGenerated => SameFields(custom_device, parsed_params)

\* C20: generation and parsing are inverses for well-formed descriptors:
\* parsing a generated string returns the device fields, and the string
\* generated from the parsed fields of a well-formed string is that string.
C20_Inverses ==
    /\ C20_ParseOfGenerated
    /\ from_parsed => custom_ua = ua

\* ------------------------------------------------------------------ C21
\* cs without its leading zeros (one digit is always left)
RECURSIVE Stripped(_)
Stripped(cs) ==
    IF Len(cs) > 1 /\ cs[1] = "0" THEN Stripped(Tail(cs)) ELSE cs

\* the androidVersion segment of the descriptor last handed to the parser
Segment == ua[4]
OnlyDigits(cs) ==
    cs # <<>> /\ \A i \in DOMAIN cs : cs[i] \in {"0", "1", "2", "3", "4", "5", "6", "7", "8", "9"}

\* C21: validate_useragent raises ValueError and returns no parsed result for
\* every descriptor whose android-version segment is not numeric; for a
\* numeric segment the parsed android_version is the integer the segment
\* writes.
C21_NonNumericRejected ==
    ua # NoUseragent =>
        IF OnlyDigits(Segment)
        THEN /\ ua_error = "none"
             /\ parsed_params # NoParams
             /\ parsed_params.android_version \in Nat
             /\ Decimal(parsed_params.android_version) = Stripped(Segment)
        ELSE /\ ua_error = "ValueError"
             /\ parsed_params = NoParams

\* the descriptor of test_validate_useragent2 was refused
C21_Witness ==
    /\ ua # NoUseragent
    /\ Segment = <<"x", "x">>
    /\ ua_error = "ValueError"
    /\ parsed_params = NoParams

\* ------------------------------------------------------------------ C22
\* call j was method m, and call k was method n
Made(j, m, k, n) == idcalls[j].method = m /\ idcalls[k].method = n

\* a shortcode as shorten_id writes it: no leading zero digit
Canonical(c) == c # <<>> /\ (c[1] # "A" \/ c = <<"A">>)

FirstDot(sb) ==
    LET dots == {i \in DOMAIN sb : sb[i] = "."}
    IN CHOOSE i \in dots : \A j \in dots : i <= j
Signature(sb) == SubSeq(sb, 1, FirstDot(sb) - 1)
Payload(sb) == SubSeq(sb, FirstDot(sb) + 1, Len(sb))

RequestBound(n, k) == 1 + (IF n - k > 0 THEN n - k ELSE 0)

\* the helper is between its first request and its end
InLoop(t) == Paginating(t) /\ pc[t] \notin {"idle", "done", "raised"}

\* C24: feed_timeline and media_n_comments issue at most 1 + max(0, n - k)
\* requests, k being the size of the first page, whatever the server answers;
\* every step of a helper issues a request or ends the helper, and a helper
\* that has not ended is at its loop test or at its return: so every run of a
\* helper is finite.
C24_Terminates ==
    /\ [](\A t \in Threads :
            Paginating(t) =>
                IF pages[t] = <<>> THEN RequestsOf(t) = 1
                ELSE RequestsOf(t)
                         <= RequestBound(call[t].n, Len(PageItems(pages[t][1]))))
    /\ [][\A t \in Threads :
            (InLoop(t) /\ pc'[t] # pc[t]) =>
                (Requests(t) \/ pc'[t] \in {"done", "raised"})]_vars
    /\ [](\A t \in Threads :
            InLoop(t) => pc[t] \in {"ft_while", "ft_end", "mc_while", "mc_end"})

\* a helper returned after as many requests as the bound allows, every page
\* but the last reporting more pages with a cursor
C24_Witness ==
    \E t \in Threads :
        /\ Paginating(t) /\ pc[t] = "done"
        /\ call[t].n = MaxN /\ PageItems(pages[t][1]) = <<>>
        /\ RequestsOf(t) = RequestBound(MaxN, 0)
        /\ \A i \in 1..(Len(pages[t]) - 1) :
               MoreFlag(pages[t][i]) /\ pages[t][i].next_max_id # NoCursor

\* ------------------------------------------------------------------ C25
\* the requests t issued, in order
RequestsBy(t) == LET Mine(x) == x.thread = t IN SelectSeq(requests, Mine)

\* the parameters other than max_id
Others(ps) == [f \in DOMAIN ps \ {"max_id"} |-> ps[f]]

\* C25: in either helper the max_id of every request after the first is the
\* next_max_id of the response just before it, and every other parameter is
\* the one the first request carried.
C25_CursorChaining ==
    \A t \in Threads :
        Paginating(t) =>
            LET rs == RequestsBy(t) IN
            \A i \in 2..Len(rs) :
                /\ i - 1 \in DOMAIN pages[t]
                /\ rs[i].params.max_id = pages[t][i - 1].next_max_id
                /\ Others(rs[i].params) = Others(rs[1].params)
                /\ rs[i].endpoint = rs[1].endpoint

\* feed_timeline was called with a max_id, was handed another cursor with
\* its first page and sent it with the second request, which still carries
\* the csrftoken captured before the client's token was replaced
C25_Witness ==
    \E t \in Threads :
        LET rs == RequestsBy(t) IN
        /\ call[t].method = "feed_timeline" /\ Len(rs) >= 2
        /\ rs[1].params.max_id = "cursor-a"
        /\ pages[t][1].next_max_id = "cursor-b"
        /\ rs[2].params.max_id = "cursor-b"
        /\ rs[2].params.csrftoken = rs[1].params.csrftoken
        /\ csrftoken # rs[1].params.csrftoken

\* ------------------------------------------------------------------ C26
\* a page request of t raised
PageFailed(t) == Paginating(t) /\ err[t] = "ClientError"

\* C26: when a page request of a helper raises, the helper ends with that
\* error (its type, message and HTTP code), issues no further request and
\* returns nothing, the items of the earlier pages included.
C26_ErrorPropagates ==
    /\ [](\A t \in Threads :
            PageFailed(t) =>
                /\ pc[t] = "raised"
                /\ msg[t] = "bad request" /\ code[t] \in HttpErrors
                /\ ret[t] = NoRet
                /\ RequestsOf(t) = Len(pages[t]) + 1)
    /\ [][\A t \in Threads : PageFailed(t) => ~Requests(t)]_vars

\* the second request of a helper raised after a first page with items
C26_Witness ==
    \E t \in Threads :
        /\ PageFailed(t) /\ pc[t] = "raised"
        /\ Len(pages[t]) = 1 /\ items[t] # <<>>
        /\ RequestsOf(t) = 2
        /\ ret[t] = NoRet

\* ------------------------------------------------------------------ C27
\* the comments of the pages served to t, as the server sent them
Fetched(t) == Concat(pages[t])

Unpatched(r) ==
    /\ "items" \in DOMAIN r => \A i \in DOMAIN r.items : r.items[i] = "raw"
    /\ "comments" \in DOMAIN r =>
           \A i \in DOMAIN r.comments : r.comments[i].created_time = NoTime
    /\ "comment" \in DOMAIN r => r.comment.created_time = NoTime

\* this step received a response to a request of some caller
Answered ==
    \E t \in Threads : Requests(t) /\ ~(pc'[t] = "raised" /\ pc[t] # "raised")

\* C28: with auto_patch false, media_info, media_comments, user_feed and
\* post_comment return the response as _call_api returned it, no entity
\* patched; and no step of any endpoint method changes auto_patch,
\* drop_incompat_keys, the settings or the session of the client, the
\* csrftoken changing only when _call_api receives a response.
C28_UnpatchedAndFramed ==
    /\ [](\A t \in Threads :
            (~auto_patch /\ pc[t] = "done") =>
                /\ NonPaginating(t) =>
                       ret[t].value = pages[t][1] /\ Unpatched(ret[t].value)
                /\ call[t].method = "post_comment" => Unpatched(ret[t].value))
    /\ [][/\ auto_patch' = auto_patch
          /\ drop_incompat_keys' = drop_incompat_keys
          /\ UNCHANGED <<store, session>>
          /\ csrftoken' # csrftoken => Answered]_vars

\* without auto_patch, media_comments returned a page of two raw comments as
\* it came, and the response replaced the client's csrftoken
C28_Witness ==
    \E t \in Threads :
        /\ ~auto_patch /\ call[t].method = "media_comments" /\ pc[t] = "done"
        /\ Len(pages[t][1].comments) = 2
        /\ ret[t].value = pages[t][1]
        /\ csrftoken = "csrf-b"

\* ------------------------------------------------------------------ C29
IdSet(xs) == {ItemId(xs[i]) : i \in DOMAIN xs}

\* both callers are inside a helper, each past its first response
BothPaging ==
    \A t \in Threads : Paginating(t) /\ pages[t] # <<>>

\* C29: with two callers inside the helpers at once, under every
\* interleaving, each caller has accumulated exactly the items of the
\* responses to its own requests, in order, and none of the other caller's;
\* each of its requests after the first carries the cursor of its own last
\* response; and what it returns holds exactly its own items.
C29_NoMixing ==
    \A t \in Threads :
        Paginating(t) =>
            /\ Ids(items[t]) = Ids(Concat(pages[t]))
            /\ \A u \in Threads \ {t} :
                   Paginating(u) => IdSet(items[t]) \cap IdSet(Concat(pages[u])) = {}
            /\ LET rs == RequestsBy(t) IN
               \A i \in 2..Len(rs) :
                   rs[i].params.max_id = pages[t][i - 1].next_max_id
            /\ pc[t] = "done" => IdSet(ret[t].value) = IdSet(Concat(pages[t]))

\* both callers returned two items each, their four requests interleaved
\* one by one
C29_Witness ==
    /\ BothPaging
    /\ \A t \in Threads : pc[t] = "done" /\ Len(ret[t].value) = 2 /\ Len(pages[t]) = 2
    /\ Len(requests) = 4
    /\ requests[1].thread = 1 /\ requests[2].thread = 2
    /\ requests[3].thread = 1 /\ requests[4].thread = 2
    /\ requests[3].params.max_id = "cursor-a"
    /\ requests[4].params.max_id = "cursor-b"

\* ------------------------------------------------------------------ C30
\* the run went through the handler of line 77: the settings were loaded and
\* a login was sent all the same
Relogged == cached_settings # NoSettings /\ logins >= 1

\* C30: a run of the example sends at most one login; from the handler of the
\* cookie-expired / login-required error its one step is a new login with the
\* on_login callback; when that login succeeds the callback runs once and the
\* settings file holds the new settings; when it fails the script does not
\* exit with code 9: the error leaves the script.
C30_OneRelogin ==
    /\ [](logins <= 1)
    /\ [][spc = "handler" =>
            /\ logins' = logins + 1
            /\ api'.session = "AUTHENTICATING" /\ api'.on_login
            /\ spc' = "relogin"]_vars
    /\ [][(spc = "relogin" /\ api' = NoApi) => spc' = "uncaught"]_vars
    /\ [](Relogged =>
            /\ spc \in {"relogin", "on_login", "ready", "uncaught"}
            /\ spc = "ready" =>
                   /\ Len(callbacks) = 1 /\ callbacks[1] = settings
                   /\ settings_file = Dumps(settings)
            /\ spc = "uncaught" => (api = NoApi /\ callbacks = <<>>))

\* the restore of an expired snapshot was refused, the relogin failed, and
\* its error left the script
C30_Witness ==
    /\ Relogged /\ snapshot_expired
    /\ logins = 1 /\ spc = "uncaught"
    /\ api = NoApi
    /\ settings_file # NoFile

====
